---- MODULE Spec2Model ----
(***************************************************************************)
(* A model of the UPnP IGD client: SSDP discovery (udpRequest, discover),  *)
(* device-description fetch and service resolution (deviceDescription,     *)
(* isValidService, getConnectionService, upnpService), the constructor New *)
(* and the three SOAP action calls of Client.                              *)
(*                                                                         *)
(* Strings that the code takes apart (URLs, datagrams) are sequences of    *)
(* atoms: "/" is the slash, " " the space, "\n" the line feed, ":" the     *)
(* colon, and every other atom is a run of characters holding none of      *)
(* these.                                                                  *)
(***************************************************************************)
EXTENDS Integers, Sequences, FiniteSets, TLC

VARIABLES
    pc,        \* position of the running operation
    jp,        \* joinPath under test: [base, rel, out]
    localIP,   \* New: localIP
    sock,      \* udpRequest: the UDP socket ("none", "open", "closed")
    sent,      \* udpRequest: probe datagrams written to the socket
    inbox,     \* the network: datagrams still to arrive before silence
    res,       \* udpRequest: res, then discover: devices
    headers,   \* discover: headers, then upnpService: headers
    discErr,   \* discover: the returned error
    ddOracle,  \* the network: answer to the GET of each LOCATION
    scpdOracle,\* the network: answer to the GET of each SCPD URL
    hi,        \* upnpService: index of the reply the loop is at
    errs,      \* upnpService: errs
    ddLog,     \* device-description GETs issued, in order
    probeLog,  \* SCPD GETs issued, in order
    svc,       \* upnpService: the service returned
    resErr,    \* upnpService: the error returned
    client,    \* New: the *Client returned
    newErr,    \* New: the error returned
    call,      \* the last action call: request sent, endpoint answer, result
    duo,       \* two Clients in use at once: each one's Client and call in flight
    probe,     \* isValidService under test: [s, err]
    udp,       \* udpRequest: calls of SetReadDeadline and Read, seconds elapsed
    rsrc       \* sockets and response bodies: the operations run and what they did

vars == <<pc, jp, localIP, sock, sent, inbox, res, headers, discErr, ddOracle,
          scpdOracle, hi, errs, ddLog, probeLog, svc, resErr, client, newErr, call,
          duo, probe, udp, rsrc>>

(***************************************************************************)
(* Sequence helpers.                                                       *)
(***************************************************************************)
SeqsUpTo(S, n) == UNION {[1..k -> S] : k \in 0..n}

RECURSIVE Flatten(_)
Flatten(ss) == IF ss = <<>> THEN <<>> ELSE Head(ss) \o Flatten(Tail(ss))

Last(s) == s[Len(s)]

(***************************************************************************)
(* strings.Trim(s, "/"), strings.Join(parts, "/") and joinPath.            *)
(***************************************************************************)
RECURSIVE TrimLeft(_, _)
TrimLeft(s, c) == IF s # <<>> /\ Head(s) = c THEN TrimLeft(Tail(s), c) ELSE s

RECURSIVE TrimRight(_, _)
TrimRight(s, c) ==
    IF s # <<>> /\ s[Len(s)] = c THEN TrimRight(SubSeq(s, 1, Len(s) - 1), c) ELSE s

Trim(s, c) == TrimRight(TrimLeft(s, c), c)

RECURSIVE Join(_, _)
Join(parts, sep) ==
    IF parts = <<>> THEN <<>>
    ELSE IF Len(parts) = 1 THEN parts[1]
    ELSE parts[1] \o sep \o Join(Tail(parts), sep)

joinPath_NoTrim(parts) == Join(parts, <<"/">>)

joinPath(parts) == Join([i \in 1..Len(parts) |-> Trim(parts[i], "/")], <<"/">>)

(***************************************************************************)
(* Errors.  A Go error is a record with a kind; the nil error is NoErr.    *)
(* errors.Join drops nil errors and returns nil when none is left.         *)
(***************************************************************************)
NoErr == [kind |-> "nil"]

Err(k) == [kind |-> k]

ErrorsJoin(es) ==
    LET kept == SelectSeq(es, LAMBDA e : e # NoErr)
    IN  IF kept = <<>> THEN NoErr ELSE [kind |-> "join", errs |-> kept]

(***************************************************************************)
(* bytes.Cut and bytes.Split on one separator atom.                        *)
(***************************************************************************)
IndexOf(s, c) ==
    IF \E i \in 1..Len(s) : s[i] = c
    THEN CHOOSE i \in 1..Len(s) : s[i] = c /\ \A j \in 1..(i - 1) : s[j] # c
    ELSE 0

Cut(s, c) ==
    LET i == IndexOf(s, c)
    IN  IF i = 0 THEN [before |-> s, after |-> <<>>, found |-> FALSE]
        ELSE [before |-> SubSeq(s, 1, i - 1), after |-> SubSeq(s, i + 1, Len(s)),
              found |-> TRUE]

RECURSIVE Split(_, _)
Split(s, c) ==
    LET cut == Cut(s, c)
    IN  IF cut.found THEN <<cut.before>> \o Split(cut.after, c) ELSE <<s>>

(***************************************************************************)
(* net/http.Header and net/textproto.Reader.ReadMIMEHeader.  A header is a *)
(* function from the canonical keys to the values received under each key, *)
(* in order.                                                               *)
(***************************************************************************)
HeaderKeys == {"Location", "St"}

\* The atoms that are header field names; any other atom in key position holds a
\* byte that no field name may hold.
KeyTokens == {"LOCATION", "location", "Location", "ST", "st", "St"}

CanonicalMIMEHeaderKey(k) ==
    CASE k \in {"LOCATION", "location", "Location"} -> "Location"
      [] k \in {"ST", "st", "St"} -> "St"
      [] OTHER -> k

EmptyHeader == [k \in HeaderKeys |-> <<>>]

HeaderGet(h, k) ==
    LET ck == CanonicalMIMEHeaderKey(k)
    IN  IF ck \in DOMAIN h /\ h[ck] # <<>> THEN h[ck][1] ELSE <<>>

TrimCR(line) ==
    IF line # <<>> /\ line[Len(line)] = "\r" THEN SubSeq(line, 1, Len(line) - 1) ELSE line

\* One header line "key: value" is added to m; a line without a colon, or whose
\* key is not a single token, is a "malformed MIME header line".
RECURSIVE ReadMIMELines(_, _)
ReadMIMELines(rest, m) ==
    IF rest = <<>> THEN [hdr |-> m, err |-> Err("EOF")]
    ELSE
      LET cut  == Cut(rest, "\n")
          line == IF cut.found THEN TrimCR(cut.before) ELSE cut.before
          kv   == Cut(line, ":")
          key  == kv.before
          ck   == CanonicalMIMEHeaderKey(key[1])
          val  == Trim(kv.after, " ")
      IN  IF line = <<>> THEN [hdr |-> m, err |-> NoErr]
          ELSE IF ~kv.found \/ Len(key) # 1 \/ key[1] \notin KeyTokens
            THEN [hdr |-> m, err |-> Err("malformed MIME header line")]
          ELSE ReadMIMELines(cut.after, [m EXCEPT ![ck] = Append(@, val)])

ReadMIMEHeader(h) ==
    IF h # <<>> /\ Head(h) = " "
    THEN [hdr |-> EmptyHeader, err |-> Err("malformed MIME header initial line")]
    ELSE ReadMIMELines(h, EmptyHeader)

(***************************************************************************)
(* discover: the datagrams udpRequest collected are parsed one by one.     *)
(***************************************************************************)
StatusOK == <<"200">>

parseDatagram_AnyStatus(dg) ==
    LET cut == Cut(dg, "\n")
        s   == Split(cut.before, " ")
        mh  == ReadMIMEHeader(cut.after)
    IN  IF ~cut.found THEN [ok |-> FALSE, err |-> Err("invalid response")]
        ELSE IF Len(s) < 3 THEN [ok |-> FALSE, err |-> Err("invalid response")]
        ELSE IF mh.err # NoErr THEN [ok |-> FALSE, err |-> mh.err]
        ELSE [ok |-> TRUE, header |-> mh.hdr]

\* One iteration of the loop over devices: the header of the datagram, or the
\* error recorded for it.
parseDatagram(dg) ==
    LET cut == Cut(dg, "\n")
        s   == Split(cut.before, " ")
        mh  == ReadMIMEHeader(cut.after)
    IN  IF ~cut.found THEN [ok |-> FALSE, err |-> Err("invalid response")]
        ELSE IF Len(s) < 3 THEN [ok |-> FALSE, err |-> Err("invalid response")]
        ELSE IF s[2] # StatusOK THEN [ok |-> FALSE, err |-> Err("not ok")]
        ELSE IF mh.err # NoErr THEN [ok |-> FALSE, err |-> mh.err]
        ELSE [ok |-> TRUE, header |-> mh.hdr]

RECURSIVE discoverLoop(_, _, _)

\* As discoverLoop, but the error of a datagram that is not accepted is dropped.
discoverLoop_DropsErrors(devices, hs, es) ==
    IF devices = <<>> THEN [headers |-> hs, errs |-> es]
    ELSE LET r == parseDatagram(Head(devices))
         IN  IF r.ok THEN discoverLoop(Tail(devices), Append(hs, r.header), es)
             ELSE discoverLoop(Tail(devices), hs, es)

discoverLoop(devices, hs, es) ==
    IF devices = <<>> THEN [headers |-> hs, errs |-> es]
    ELSE LET r == parseDatagram(Head(devices))
         IN  IF r.ok THEN discoverLoop(Tail(devices), Append(hs, r.header), es)
             ELSE discoverLoop(Tail(devices), hs, Append(es, r.err))

\* What discover returns for the datagrams udpRequest handed it.
discoverResult(devices) ==
    LET r == discoverLoop(devices, <<>>, <<>>)
    IN  IF Len(r.headers) = 0
        THEN [headers |-> <<>>, err |-> ErrorsJoin(r.errs)]
        ELSE [headers |-> r.headers, err |-> NoErr]

(***************************************************************************)
(* The device tree (structs.go) and the documents the network serves.      *)
(***************************************************************************)
EmptyStr == <<>>

ZeroService ==
    [ServiceType |-> EmptyStr, ControlURL |-> EmptyStr, SCPDURL |-> EmptyStr,
     Location |-> EmptyStr]

ZeroDevice == [ServiceList |-> <<>>, DeviceList |-> <<>>]

ZeroRoot == [BaseUrl |-> EmptyStr, Device |-> ZeroDevice]

\* What xml.Unmarshal has stored in the root when it returns: the whole document,
\* or the part that preceded the first malformed token, or nothing.
Decoded(body) == IF "root" \in DOMAIN body THEN body.root ELSE ZeroRoot

addPortMapping == "AddPortMapping"
deletePortMapping == "DeletePortMapping"
getExternalIPAddress == "GetExternalIPAddress"

requiredActionNames == {addPortMapping, deletePortMapping, getExternalIPAddress}

StatusOKCode == 200

\* A GET that fails in transport yields no response.
TransportFailure == [transport |-> FALSE, status |-> 0, body |-> [parses |-> FALSE]]

DdFetch(loc) == IF loc \in DOMAIN ddOracle THEN ddOracle[loc] ELSE TransportFailure

ScpdFetch(url) == IF url \in DOMAIN scpdOracle THEN scpdOracle[url] ELSE TransportFailure

\* As deviceDescription, but a body that does not parse is an error.
deviceDescription_StrictParse(header) ==
    LET resp == DdFetch(HeaderGet(header, "location"))
    IN  IF ~resp.transport THEN [root |-> ZeroRoot, err |-> Err("http.Get")]
        ELSE IF resp.status # StatusOKCode
          THEN [root |-> ZeroRoot,
                err |-> [kind |-> "status", status |-> resp.status, body |-> resp.body]]
        ELSE IF ~resp.body.parses THEN [root |-> ZeroRoot, err |-> Err("xml.Unmarshal")]
        ELSE [root |-> Decoded(resp.body), err |-> NoErr]

\* deviceDescription: the error of xml.Unmarshal is dropped, so a body that does
\* not parse leaves in the root what was decoded before the failure.
deviceDescription(header) ==
    LET resp == DdFetch(HeaderGet(header, "location"))
    IN  IF ~resp.transport THEN [root |-> ZeroRoot, err |-> Err("http.Get")]
        ELSE IF resp.status # StatusOKCode
          THEN [root |-> ZeroRoot,
                err |-> [kind |-> "status", status |-> resp.status, body |-> resp.body]]
        ELSE [root |-> Decoded(resp.body), err |-> NoErr]

\* As isValidService, but the service is judged by its serviceType string.
isValidService_ByServiceType(s) ==
    LET url == joinPath(<<s.Location, s.SCPDURL>>)
    IN  IF s.ServiceType = <<"urn:WANIPConnection:1">> THEN NoErr
        ELSE [kind |-> "service is not valid", url |-> url]

\* As isValidService, but a body that does not parse is taken for a description
\* without flaw.
isValidService_AcceptsUnparsed(s) ==
    LET url  == joinPath(<<s.Location, s.SCPDURL>>)
        resp == ScpdFetch(url)
    IN  IF ~resp.transport THEN [kind |-> "http.Get", url |-> url]
        ELSE IF resp.status # StatusOKCode
          THEN [kind |-> "status", url |-> url, status |-> resp.status]
        ELSE IF ~resp.body.parses THEN NoErr
        ELSE IF \E i \in 1..Len(resp.body.actions) :
                  resp.body.actions[i] \in requiredActionNames
          THEN NoErr
        ELSE [kind |-> "service is not valid", url |-> url]

isValidService(s) ==
    LET url  == joinPath(<<s.Location, s.SCPDURL>>)
        resp == ScpdFetch(url)
    IN  IF ~resp.transport THEN [kind |-> "http.Get", url |-> url]
        ELSE IF resp.status # StatusOKCode
          THEN [kind |-> "status", url |-> url, status |-> resp.status]
        ELSE IF ~resp.body.parses THEN [kind |-> "xml.Unmarshal", url |-> url]
        ELSE IF \E i \in 1..Len(resp.body.actions) :
                    resp.body.actions[i] \in requiredActionNames
          THEN NoErr
        ELSE [kind |-> "service is not valid", url |-> url]

(***************************************************************************)
(* getConnectionService.  Besides the service and the error it returns,    *)
(* the result lists the services it probed, in the order of the probes.    *)
(***************************************************************************)
RECURSIVE getConnectionService(_, _)
RECURSIVE serviceLoop(_, _, _, _, _)
RECURSIVE deviceLoop(_, _, _, _)

\* As serviceLoop, but the loop is not left at the first valid service: the
\* services after it are probed too.
serviceLoop_KeepsProbing(location, rootDevice, i, es, probes) ==
    IF i > Len(rootDevice.ServiceList)
    THEN deviceLoop(location, rootDevice.DeviceList, es, probes)
    ELSE LET s   == [rootDevice.ServiceList[i] EXCEPT !.Location = location]
             err == isValidService(s)
         IN  IF err = NoErr
             THEN [service |-> s, err |-> NoErr,
                   probes |-> probes \o
                       [j \in 1..(Len(rootDevice.ServiceList) - i + 1) |->
                           [rootDevice.ServiceList[i + j - 1] EXCEPT !.Location = location]]]
             ELSE serviceLoop(location, rootDevice, i + 1, Append(es, err),
                              Append(probes, s))

\* As serviceLoop, but the first service that is rejected ends the search of
\* the device with its error.
serviceLoop_AbortsOnReject(location, rootDevice, i, es, probes) ==
    IF i > Len(rootDevice.ServiceList)
    THEN deviceLoop(location, rootDevice.DeviceList, es, probes)
    ELSE LET s   == [rootDevice.ServiceList[i] EXCEPT !.Location = location]
             err == isValidService(s)
         IN  IF err = NoErr
             THEN [service |-> s, err |-> NoErr, probes |-> Append(probes, s)]
             ELSE [service |-> ZeroService, err |-> ErrorsJoin(Append(es, err)),
                   probes |-> Append(probes, s)]

\* for _, s := range rootDevice.ServiceList
serviceLoop(location, rootDevice, i, es, probes) ==
    IF i > Len(rootDevice.ServiceList)
    THEN deviceLoop(location, rootDevice.DeviceList, es, probes)
    ELSE LET s   == [rootDevice.ServiceList[i] EXCEPT !.Location = location]
             err == isValidService(s)
         IN  IF err = NoErr
             THEN [service |-> s, err |-> NoErr, probes |-> Append(probes, s)]
             ELSE serviceLoop(location, rootDevice, i + 1, Append(es, err),
                              Append(probes, s))

\* for _, d := range rootDevice.DeviceList
deviceLoop(location, devices, es, probes) ==
    IF devices = <<>>
    THEN [service |-> ZeroService, err |-> ErrorsJoin(es), probes |-> probes]
    ELSE LET r == getConnectionService(location, Head(devices))
         IN  IF r.err = NoErr
             THEN [service |-> r.service, err |-> NoErr, probes |-> probes \o r.probes]
             ELSE deviceLoop(location, Tail(devices), Append(es, r.err),
                             probes \o r.probes)

\* As getConnectionService, but the child devices are searched before the
\* services of the device itself.
getConnectionService_ChildrenFirst(location, rootDevice) ==
    LET kids == deviceLoop(location, rootDevice.DeviceList, <<>>, <<>>)
    IN  IF rootDevice.DeviceList # <<>> /\ kids.err = NoErr THEN kids
        ELSE serviceLoop(location, [rootDevice EXCEPT !.DeviceList = <<>>], 1,
                         <<>>, kids.probes)

getConnectionService(location, rootDevice) ==
    serviceLoop(location, rootDevice, 1, <<>>, <<>>)

(***************************************************************************)
(* One iteration of the loop of upnpService over the replies.              *)
(***************************************************************************)
RECURSIVE SplitN(_, _, _)
SplitN(s, c, n) ==
    LET cut == Cut(s, c)
    IN  IF n <= 1 \/ ~cut.found THEN <<s>>
        ELSE <<cut.before>> \o SplitN(cut.after, c, n - 1)

SplitLimit == 4

BaseParts == 3

\* As upnpServiceStep, but the base location is always cut from LOCATION and the
\* URLBase of the document is ignored.
upnpServiceStep_IgnoresURLBase(header) ==
    LET dd        == deviceDescription(header)
        locationN == SplitN(HeaderGet(header, "LOCATION"), "/", SplitLimit)
        baseUrl   == Join(SubSeq(locationN, 1, BaseParts), <<"/">>)
        r         == getConnectionService(baseUrl, dd.root.Device)
    IN  IF dd.err # NoErr
        THEN [service |-> ZeroService, err |-> dd.err, probes |-> <<>>]
        ELSE IF Len(locationN) < BaseParts
          THEN [service |-> ZeroService, err |-> Err("invalid location"),
                probes |-> <<>>]
        ELSE r

upnpServiceStep(header) ==
    LET dd        == deviceDescription(header)
        locationN == SplitN(HeaderGet(header, "LOCATION"), "/", SplitLimit)
        baseUrl   == IF dd.root.BaseUrl = EmptyStr
                     THEN Join(SubSeq(locationN, 1, BaseParts), <<"/">>)
                     ELSE dd.root.BaseUrl
        r         == getConnectionService(baseUrl, dd.root.Device)
    IN  IF dd.err # NoErr
        THEN [service |-> ZeroService, err |-> dd.err, probes |-> <<>>]
        ELSE IF dd.root.BaseUrl = EmptyStr /\ Len(locationN) < BaseParts
          THEN [service |-> ZeroService, err |-> Err("invalid location"),
                probes |-> <<>>]
        ELSE r

(***************************************************************************)
(* The inputs the model draws from.                                        *)
(***************************************************************************)
MaxDatagrams == 3
MaxReplies == 2
MaxNodes == 4
MaxTree == 6
MaxLen == 3
MaxElems == 1
MaxActions == 2
MaxOps == 2

LocA == <<"http:", "/", "/", "hA", "/", "desc">>
LocB == <<"http:", "/", "/", "hB">>
Locations == {LocA, LocB}

ExplicitBase == <<"http:", "/", "/", "hA", "/">>

CRLF == <<"\r", "\n">>
Line(key, val) == <<key, ":", " ">> \o val \o CRLF
StatusLine200 == <<"HTTP/1.1", " ", "200", " ", "OK">> \o CRLF

dgA        == StatusLine200 \o Line("LOCATION", LocA) \o Line("ST", <<"igd">>) \o CRLF
dgB        == StatusLine200 \o Line("location", LocB) \o CRLF
dgNoLoc    == <<"HTTP/1.1", " ", "200", " ">> \o CRLF \o Line("ST", <<"igd">>) \o CRLF
dg404      == <<"HTTP/1.1", " ", "404", " ", "Not", " ", "Found">> \o CRLF
                 \o Line("LOCATION", LocA) \o CRLF
dgNotify   == <<"NOTIFY", " ", "*", " ", "HTTP/1.1">> \o CRLF
                 \o Line("LOCATION", LocA) \o CRLF
dgNoNL     == <<"HTTP/1.1", " ", "200", " ", "OK">>
dgShort    == <<"HTTP/1.1", " ", "200">> \o CRLF \o Line("LOCATION", LocA) \o CRLF
dgTwoSp    == <<"HTTP/1.1", " ", " ", "200", " ", "OK">> \o CRLF
                 \o Line("LOCATION", LocA) \o CRLF
dgBadHdr   == StatusLine200 \o <<"garbage">> \o CRLF \o CRLF
dgBadKey   == StatusLine200 \o Line("bad key", LocA) \o CRLF
dgNoBlank  == StatusLine200 \o Line("LOCATION", LocA)
dgEmpty    == <<>>

Datagrams == {dgA, dgB, dgNoLoc, dg404, dgNotify, dgNoNL, dgShort, dgTwoSp,
              dgBadHdr, dgBadKey, dgNoBlank, dgEmpty}

HeaderOf(dg) == parseDatagram(dg).header

\* The replies discover can hand to upnpService.
ReplyHeaders == {HeaderOf(dgA), HeaderOf(dgB), HeaderOf(dgNoLoc)}

SvcA == [ServiceType |-> <<"urn:WANIPConnection:1">>, ControlURL |-> <<"/", "ctl", "/", "1">>,
         SCPDURL |-> <<"/", "s1">>, Location |-> EmptyStr]
SvcB == [ServiceType |-> <<"urn:Layer3Forwarding:1">>, ControlURL |-> <<"ctl2">>,
         SCPDURL |-> <<"s2", "/">>, Location |-> EmptyStr]
Services == {SvcA, SvcB}

\* The devices of n nodes (devices and services), children included.
RECURSIVE DevicesOfSize(_)
RECURSIVE DeviceListsOfSize(_)
DevicesOfSize(n) ==
    IF n < 1 THEN {}
    ELSE UNION {{[ServiceList |-> sl, DeviceList |-> dl] :
                    sl \in [1..k -> Services], dl \in DeviceListsOfSize(n - 1 - k)} :
                k \in 0..(n - 1)}
DeviceListsOfSize(m) ==
    IF m = 0 THEN {<<>>}
    ELSE UNION {{<<d>> \o rest : d \in DevicesOfSize(j), rest \in DeviceListsOfSize(m - j)} :
                j \in 1..m}

RECURSIVE DeviceSize(_)
RECURSIVE DeviceListSize(_)
DeviceSize(d) == 1 + Len(d.ServiceList) + DeviceListSize(d.DeviceList)
DeviceListSize(ds) == IF ds = <<>> THEN 0 ELSE DeviceSize(Head(ds)) + DeviceListSize(Tail(ds))

DevicesUpTo(n) == UNION {DevicesOfSize(k) : k \in 1..n}

Trees == DevicesUpTo(MaxNodes)

Response(status, body) == [transport |-> TRUE, status |-> status, body |-> body]

Unparseable == [parses |-> FALSE]

\* A document cut short after the first service of its root device.
PartialBody ==
    [parses |-> FALSE,
     root |-> [BaseUrl |-> EmptyStr,
               Device |-> [ServiceList |-> <<SvcA>>, DeviceList |-> <<>>]]]

DdResponses ==
    {TransportFailure, Response(500, Unparseable), Response(200, Unparseable),
     Response(404, PartialBody), Response(200, PartialBody)}
    \cup {Response(200, [parses |-> TRUE, root |-> [BaseUrl |-> b, Device |-> d]]) :
            b \in {EmptyStr, ExplicitBase}, d \in Trees}

ScpdResponses ==
    {TransportFailure, Response(404, Unparseable), Response(200, Unparseable),
     Response(200, [parses |-> TRUE, actions |-> <<"GetStatusInfo">>]),
     Response(200, [parses |-> TRUE, actions |-> <<"GetStatusInfo", addPortMapping>>])}

\* The services of a tree, and the SCPD URLs a world can be asked for.
RECURSIVE ServicesOfDevice(_)
ServicesOfDevice(d) ==
    {d.ServiceList[i] : i \in 1..Len(d.ServiceList)}
    \cup UNION {ServicesOfDevice(d.DeviceList[i]) : i \in 1..Len(d.DeviceList)}

Bases == {<<"http:", "/", "/", "hA">>, <<"http:", "/", "/", "hB">>, ExplicitBase}

DocSize(resp) ==
    IF "root" \in DOMAIN resp.body THEN DeviceSize(resp.body.root.Device) ELSE 0

LocalIPs == {"192.168.1.2"}

NilClient == [kind |-> "nil"]

NoCall == [action |-> "none"]

NoDuo == <<>>

NoProbe == [s |-> ZeroService, err |-> NoErr]

\* No operation has run yet, nothing is open.
NoRsrc == [ops |-> <<>>, events |-> <<>>, open |-> 0]

\* Before udpRequest: no deadline set, no read, no time spent.
ZeroUdp == [addr |-> "239.255.255.250", deadlines |-> 0, reads |-> 0, elapsed |-> 0]

\* The addresses udpRequest is given: the SSDP multicast group, which discover
\* passes, and a string that is no IP address.
UdpAddrs == {"239.255.255.250", "ssdp.invalid"}

\* netip.ParseAddr succeeds on the literal addresses.
ParseAddrOk(addr) == addr \in {"239.255.255.250"}

\* The deadline of one read, in seconds: time.Now().Add(5 * time.Second).
ReadDeadline == 5

\* How long after the previous one a datagram can arrive and still be read:
\* at once, or just before the deadline of the read.
Gaps == {0, ReadDeadline - 1}

NoJoin == [base |-> <<>>, rel |-> <<>>, out |-> <<>>]

(***************************************************************************)
(* GetLocalIPAddr and udpRequest.                                          *)
(***************************************************************************)
\* New calls GetLocalIPAddr.  When DialUDP fails conn is nil and
\* conn.LocalAddr().String() dereferences a nil Addr.
NewStart ==
    /\ pc = "New"
    /\ \E dialed \in BOOLEAN :
         IF dialed
         THEN /\ localIP' \in LocalIPs
              /\ pc' = "discover"
         ELSE /\ pc' = "panic"
              /\ UNCHANGED localIP
    /\ UNCHANGED <<duo, probe, udp, rsrc>>
    /\ UNCHANGED <<jp, sock, sent, inbox, res, headers, discErr, ddOracle, scpdOracle,
                   hi, errs, ddLog, probeLog, svc, resErr, client, newErr, call>>

\* net.ListenUDP
UdpBind ==
    /\ pc = "discover"
    /\ \E bound \in BOOLEAN :
         IF bound
         THEN /\ sock' = "open"
              /\ pc' = "udp_send"
              /\ UNCHANGED <<discErr, inbox>>
         ELSE /\ discErr' = Err("ListenUDP")
              /\ pc' = "discovered"
              /\ inbox' = <<>>
              /\ UNCHANGED sock
    /\ UNCHANGED <<duo, probe, udp, rsrc>>
    /\ UNCHANGED <<jp, localIP, sent, res, headers, ddOracle, scpdOracle,
                   hi, errs, ddLog, probeLog, svc, resErr, client, newErr, call>>

\* As UdpSend, but the read loop is entered also when WriteToUDP has failed.
UdpSend_ReadsAfterError ==
    /\ pc = "udp_send"
    /\ IF ~ParseAddrOk(udp.addr)
       THEN /\ sock' = "closed"
            /\ discErr' = Err("ParseAddr")
            /\ pc' = "discovered"
            /\ inbox' = <<>>
            /\ UNCHANGED sent
       ELSE \E written \in BOOLEAN :
              IF written
              THEN /\ sent' = sent + 1
                   /\ pc' = "udp_read"
                   /\ UNCHANGED <<sock, discErr, inbox>>
              ELSE /\ discErr' = Err("WriteToUDP")
                   /\ pc' = "udp_read"
                   /\ UNCHANGED <<sock, sent, inbox>>
    /\ UNCHANGED <<duo, probe, udp, rsrc>>
    /\ UNCHANGED <<jp, localIP, res, headers, ddOracle, scpdOracle,
                   hi, errs, ddLog, probeLog, svc, resErr, client, newErr, call>>

\* netip.ParseAddr(addr), then socket.WriteToUDP(payload, remote); the deferred
\* Close runs on either error return.
UdpSend ==
    /\ pc = "udp_send"
    /\ IF ~ParseAddrOk(udp.addr)
       THEN /\ sock' = "closed"
            /\ discErr' = Err("ParseAddr")
            /\ pc' = "discovered"
            /\ inbox' = <<>>
            /\ UNCHANGED sent
       ELSE \E written \in BOOLEAN :
              IF written
              THEN /\ sent' = sent + 1
                   /\ pc' = "udp_read"
                   /\ UNCHANGED <<sock, discErr, inbox>>
              ELSE /\ sock' = "closed"
                   /\ discErr' = Err("WriteToUDP")
                   /\ pc' = "discovered"
                   /\ inbox' = <<>>
                   /\ UNCHANGED sent
    /\ UNCHANGED <<duo, probe, udp, rsrc>>
    /\ UNCHANGED <<jp, localIP, res, headers, ddOracle, scpdOracle,
                   hi, errs, ddLog, probeLog, svc, resErr, client, newErr, call>>

\* As UdpRead, but the datagram read is put in front of those read before.
UdpRead_Prepends ==
    /\ pc = "udp_read"
    /\ inbox # <<>>
    /\ res' = <<Head(inbox)>> \o res
    /\ inbox' = Tail(inbox)
    /\ \E gap \in Gaps :
         udp' = [udp EXCEPT !.deadlines = @ + 1, !.reads = @ + 1,
                            !.elapsed = @ + gap]
    /\ UNCHANGED <<duo, probe, rsrc>>
    /\ UNCHANGED <<pc, jp, localIP, sock, sent, headers, discErr, ddOracle, scpdOracle,
                   hi, errs, ddLog, probeLog, svc, resErr, client, newErr, call>>

\* One pass of the read loop in which SetReadDeadline succeeds and a datagram
\* arrives before the deadline.
UdpRead ==
    /\ pc = "udp_read"
    /\ inbox # <<>>
    /\ res' = Append(res, Head(inbox))
    /\ inbox' = Tail(inbox)
    /\ \E gap \in Gaps :
         udp' = [udp EXCEPT !.deadlines = @ + 1, !.reads = @ + 1,
                            !.elapsed = @ + gap]
    /\ UNCHANGED <<duo, probe, rsrc>>
    /\ UNCHANGED <<pc, jp, localIP, sock, sent, headers, discErr, ddOracle, scpdOracle,
                   hi, errs, ddLog, probeLog, svc, resErr, client, newErr, call>>

\* The pass in which SetReadDeadline fails, or Read fails: at the deadline when
\* the network is silent, at once on any other error.  The loop ends, the
\* socket is closed and what is still in flight is lost.
UdpReadStop ==
    /\ pc = "udp_read"
    /\ sock' = "closed"
    /\ inbox' = <<>>
    /\ \E how \in {"SetReadDeadline", "timeout", "Read"} :
         udp' = CASE how = "SetReadDeadline" ->
                       [udp EXCEPT !.deadlines = @ + 1]
                  [] how = "timeout" ->
                       [udp EXCEPT !.deadlines = @ + 1, !.reads = @ + 1,
                                   !.elapsed = @ + ReadDeadline]
                  [] how = "Read" ->
                       [udp EXCEPT !.deadlines = @ + 1, !.reads = @ + 1]
    /\ IF Len(res) = 0
       THEN /\ discErr' = Err("no content")
            /\ pc' = "discovered"
       ELSE /\ pc' = "parse"
            /\ UNCHANGED discErr
    /\ UNCHANGED <<duo, probe, rsrc>>
    /\ UNCHANGED <<jp, localIP, sent, res, headers, ddOracle, scpdOracle,
                   hi, errs, ddLog, probeLog, svc, resErr, client, newErr, call>>

\* discover, from the return of udpRequest to its own return.
DiscoverParse ==
    /\ pc = "parse"
    /\ LET r == discoverResult(res)
       IN  /\ headers' = r.headers
           /\ discErr' = r.err
    /\ pc' = "discovered"
    /\ UNCHANGED <<duo, probe, udp, rsrc>>
    /\ UNCHANGED <<jp, localIP, sock, sent, inbox, res, ddOracle, scpdOracle,
                   hi, errs, ddLog, probeLog, svc, resErr, client, newErr, call>>

(***************************************************************************)
(* New, after discover, and upnpService.                                   *)
(***************************************************************************)
\* As NewAfterDiscover, but the error of discover is not looked at.
NewAfterDiscover_IgnoresError ==
    /\ pc = "discovered"
    /\ res' = <<>>
    /\ pc' = "resolve"
    /\ udp' = ZeroUdp
    /\ UNCHANGED <<duo, probe, rsrc>>
    /\ UNCHANGED <<client, newErr>>
    /\ UNCHANGED <<jp, localIP, sock, sent, inbox, headers, discErr, ddOracle,
                   scpdOracle, hi, errs, ddLog, probeLog, svc, resErr, call>>

\* The locals of discover and udpRequest are gone once discover has returned.
NewAfterDiscover ==
    /\ pc = "discovered"
    /\ res' = <<>>
    /\ IF discErr # NoErr
       THEN /\ client' = NilClient
            /\ newErr' = discErr
            /\ pc' = "returned"
       ELSE /\ pc' = "resolve"
            /\ UNCHANGED <<client, newErr>>
    /\ udp' = ZeroUdp
    /\ UNCHANGED <<duo, probe, rsrc>>
    /\ UNCHANGED <<jp, localIP, sock, sent, inbox, headers, discErr, ddOracle,
                   scpdOracle, hi, errs, ddLog, probeLog, svc, resErr, call>>

\* As UpnpServiceStep, but a reply that failed is examined again.
UpnpServiceStep_Retries ==
    /\ pc = "resolve"
    /\ hi <= Len(headers)
    /\ LET r == upnpServiceStep(headers[hi])
       IN  /\ ddLog' = Append(ddLog, HeaderGet(headers[hi], "location"))
           /\ probeLog' = probeLog \o r.probes
           /\ IF r.err = NoErr
              THEN /\ svc' = r.service
                   /\ resErr' = NoErr
                   /\ pc' = "resolved"
                   /\ UNCHANGED <<hi, errs>>
              ELSE /\ errs' = Append(errs, r.err)
                   /\ hi' = IF Len(errs) < Len(headers) THEN hi ELSE hi + 1
                   /\ UNCHANGED <<svc, resErr, pc>>
    /\ UNCHANGED <<duo, probe, udp, rsrc>>
    /\ UNCHANGED <<jp, localIP, sock, sent, inbox, res, headers, discErr, ddOracle,
                   scpdOracle, client, newErr, call>>

\* One iteration of "for _, header := range headers".
UpnpServiceStep ==
    /\ pc = "resolve"
    /\ hi <= Len(headers)
    /\ LET r == upnpServiceStep(headers[hi])
       IN  /\ ddLog' = Append(ddLog, HeaderGet(headers[hi], "location"))
           /\ probeLog' = probeLog \o r.probes
           /\ IF r.err = NoErr
              THEN /\ svc' = r.service
                   /\ resErr' = NoErr
                   /\ pc' = "resolved"
                   /\ UNCHANGED <<hi, errs>>
              ELSE /\ errs' = Append(errs, r.err)
                   /\ hi' = hi + 1
                   /\ UNCHANGED <<svc, resErr, pc>>
    /\ UNCHANGED <<duo, probe, udp, rsrc>>
    /\ UNCHANGED <<jp, localIP, sock, sent, inbox, res, headers, discErr, ddOracle,
                   scpdOracle, client, newErr, call>>

\* As UpnpServiceEnd, but only the error of the last reply is returned.
UpnpServiceEnd_LastErrorOnly ==
    /\ pc = "resolve"
    /\ hi > Len(headers)
    /\ svc' = ZeroService
    /\ resErr' = ErrorsJoin(IF errs = <<>> THEN <<>> ELSE <<Last(errs)>>)
    /\ pc' = "resolved"
    /\ UNCHANGED <<duo, probe, udp, rsrc>>
    /\ UNCHANGED <<jp, localIP, sock, sent, inbox, res, headers, discErr, ddOracle,
                   scpdOracle, hi, errs, ddLog, probeLog, client, newErr, call>>

\* The loop is over: return service{}, errors.Join(errs...)
UpnpServiceEnd ==
    /\ pc = "resolve"
    /\ hi > Len(headers)
    /\ svc' = ZeroService
    /\ resErr' = ErrorsJoin(errs)
    /\ pc' = "resolved"
    /\ UNCHANGED <<duo, probe, udp, rsrc>>
    /\ UNCHANGED <<jp, localIP, sock, sent, inbox, res, headers, discErr, ddOracle,
                   scpdOracle, hi, errs, ddLog, probeLog, client, newErr, call>>

NewReturn ==
    /\ pc = "resolved"
    /\ IF resErr # NoErr
       THEN /\ client' = NilClient
            /\ newErr' = resErr
       ELSE /\ client' = [kind |-> "client", LocalIP |-> localIP, service |-> svc]
            /\ newErr' = NoErr
    /\ pc' = "returned"
    /\ UNCHANGED <<duo, probe, udp, rsrc>>
    /\ UNCHANGED <<jp, localIP, sock, sent, inbox, res, headers, discErr, ddOracle,
                   scpdOracle, hi, errs, ddLog, probeLog, svc, resErr, call>>

\* joinPath applied to the two parts under test.
JoinPathCall ==
    /\ pc = "join"
    /\ jp' = [jp EXCEPT !.out = joinPath(<<jp.base, jp.rel>>)]
    /\ pc' = "joined"
    /\ UNCHANGED <<duo, probe, udp, rsrc>>
    /\ UNCHANGED <<localIP, sock, sent, inbox, res, headers, discErr, ddOracle,
                   scpdOracle, hi, errs, ddLog, probeLog, svc, resErr, client, newErr,
                   call>>

(***************************************************************************)
(* Specifications.                                                         *)
(***************************************************************************)
\* The state in which nothing has run yet, but for the named variables.
Fresh(p, j, ip, ib, hs, c) ==
    /\ pc = p
    /\ jp = j
    /\ localIP = ip
    /\ sock = "none"
    /\ sent = 0
    /\ inbox = ib
    /\ res = <<>>
    /\ headers = hs
    /\ discErr = NoErr
    /\ hi = 1
    /\ errs = <<>>
    /\ ddLog = <<>>
    /\ probeLog = <<>>
    /\ svc = IF c = NilClient THEN ZeroService ELSE c.service
    /\ resErr = NoErr
    /\ client = c
    /\ newErr = NoErr
    /\ call = NoCall
    /\ duo = NoDuo
    /\ probe = NoProbe
    /\ rsrc = NoRsrc

NoOracle == [u \in {} |-> TransportFailure]

\* joinPath alone, on every pair of short strings and on the documented example.
JoinAtoms == {"/", "a", "b"}

ExampleBase == <<"http:", "/", "/", "10.0.0.1:1234", "/", "desc", "/">>
ExampleRel == <<"/", "ctl", "/", "1">>

InitJoin ==
    /\ \E b \in SeqsUpTo(JoinAtoms, MaxLen) \cup {ExampleBase} :
       \E r \in SeqsUpTo(JoinAtoms, MaxLen) \cup {ExampleRel} :
         Fresh("join", [base |-> b, rel |-> r, out |-> <<>>], "", <<>>, <<>>, NilClient)
    /\ udp = ZeroUdp
    /\ ddOracle = NoOracle
    /\ scpdOracle = NoOracle

NextJoin == JoinPathCall

SpecJoin == InitJoin /\ [][NextJoin]_vars

\* discover alone, on every sequence of datagrams.
InitDiscover ==
    /\ \E ib \in SeqsUpTo(Datagrams, MaxDatagrams) :
         Fresh("discover", NoJoin, "192.168.1.2", ib, <<>>, NilClient)
    /\ \E a \in UdpAddrs : udp = [ZeroUdp EXCEPT !.addr = a]
    /\ ddOracle = NoOracle
    /\ scpdOracle = NoOracle

NextDiscover == UdpBind \/ UdpSend \/ UdpRead \/ UdpReadStop \/ DiscoverParse

SpecDiscover == InitDiscover /\ [][NextDiscover]_vars

\* upnpService alone, on every list of replies, every device description the
\* network can serve for them and every answer to the SCPD GETs.
LocationsOf(hs) == {HeaderGet(hs[i], "location") : i \in 1..Len(hs)} \cap Locations

RECURSIVE SumOver(_, _)
SumOver(f, S) ==
    IF S = {} THEN 0
    ELSE LET x == CHOOSE y \in S : TRUE IN f[x] + SumOver(f, S \ {x})

baseOf(loc, resp) ==
    IF Decoded(resp.body).BaseUrl # EmptyStr
    THEN Decoded(resp.body).BaseUrl
    ELSE Join(SubSeq(SplitN(loc, "/", SplitLimit), 1, BaseParts), <<"/">>)

UrlsOf(ddo) ==
    UNION {{joinPath(<<baseOf(loc, ddo[loc]), s.SCPDURL>>) :
              s \in ServicesOfDevice(Decoded(ddo[loc].body).Device)} :
           loc \in DOMAIN ddo}

InitResolve ==
    /\ \E hs \in SeqsUpTo(ReplyHeaders, MaxReplies) \ {<<>>} :
         Fresh("resolve", NoJoin, "192.168.1.2", <<>>, hs, NilClient)
    /\ udp = ZeroUdp
    /\ ddOracle \in [LocationsOf(headers) -> DdResponses]
    /\ SumOver([loc \in DOMAIN ddOracle |-> DocSize(ddOracle[loc])], DOMAIN ddOracle)
         <= MaxNodes
    /\ scpdOracle \in [UrlsOf(ddOracle) -> ScpdResponses]

NextResolve == UpnpServiceStep \/ UpnpServiceEnd

SpecResolve == InitResolve /\ [][NextResolve]_vars

\* upnpService on one reply whose description parses, on every tree of up to
\* MaxTree nodes and every answer to the SCPD GETs.
InitTree ==
    /\ \E dg \in {dgA, dgB} :
         Fresh("resolve", NoJoin, "192.168.1.2", <<>>, <<HeaderOf(dg)>>, NilClient)
    /\ udp = ZeroUdp
    /\ \E b \in {EmptyStr, ExplicitBase} :
       \E d \in DevicesUpTo(MaxTree) :
         ddOracle = [loc \in LocationsOf(headers) |->
                       Response(200, [parses |-> TRUE,
                                      root |-> [BaseUrl |-> b, Device |-> d]])]
    /\ scpdOracle \in [UrlsOf(ddOracle) -> ScpdResponses]

SpecTree == InitTree /\ [][NextResolve]_vars

\* isValidService alone, on services of every type string and every answer to
\* the GET of their SCPD URL.
ActionNames == {"GetStatusInfo", addPortMapping, deletePortMapping, getExternalIPAddress}

ServiceTypes == {SvcA.ServiceType, SvcB.ServiceType, <<"urn:vendor:x">>}

ProbeServices ==
    {[s EXCEPT !.ServiceType = t, !.Location = b] :
        s \in Services, t \in ServiceTypes, b \in {<<"http:", "/", "/", "hA">>, ExplicitBase}}

ProbeResponses ==
    {TransportFailure, Response(404, Unparseable), Response(200, Unparseable),
     Response(404, [parses |-> TRUE, actions |-> <<addPortMapping>>])}
    \cup {Response(200, [parses |-> TRUE, actions |-> as]) :
            as \in SeqsUpTo(ActionNames, MaxActions)}

ProbeCall ==
    /\ pc = "probe"
    /\ probe' = [probe EXCEPT !.err = isValidService(probe.s)]
    /\ pc' = "probed"
    /\ UNCHANGED <<jp, localIP, sock, sent, inbox, res, headers, discErr, ddOracle,
                   scpdOracle, hi, errs, ddLog, probeLog, svc, resErr, client, newErr,
                   call, duo, udp, rsrc>>

InitProbe ==
    /\ pc = "probe"
    /\ jp = NoJoin /\ localIP = "" /\ sock = "none" /\ sent = 0 /\ inbox = <<>>
    /\ res = <<>> /\ headers = <<>> /\ discErr = NoErr /\ hi = 1 /\ errs = <<>>
    /\ ddLog = <<>> /\ probeLog = <<>> /\ svc = ZeroService /\ resErr = NoErr
    /\ client = NilClient /\ newErr = NoErr /\ call = NoCall
    /\ duo = NoDuo /\ udp = ZeroUdp /\ rsrc = NoRsrc
    /\ ddOracle = NoOracle
    /\ \E s \in ProbeServices :
       \E r \in ProbeResponses :
         /\ probe = [s |-> s, err |-> NoErr]
         /\ scpdOracle = [u \in {TrimRight(s.Location, "/") \o <<"/">>
                                    \o TrimLeft(s.SCPDURL, "/")} |-> r]

NextProbe == ProbeCall

SpecProbe == InitProbe /\ [][NextProbe]_vars

(***************************************************************************)
(* Sockets and response bodies: what each operation opens, does and closes *)
(* on each of its exit paths, in program order.                            *)
(***************************************************************************)
\* udpRequest: socket.Close() is deferred right after ListenUDP has succeeded.
UdpExits == {"ListenUDP", "ParseAddr", "WriteToUDP", "SetReadDeadline", "no content", "ok"}

udpRequestEvents(exit) ==
    CASE exit = "ListenUDP" -> <<>>
      [] exit = "ParseAddr" -> <<"open socket", "close socket">>
      [] exit = "WriteToUDP" -> <<"open socket", "close socket">>
      [] exit = "SetReadDeadline" -> <<"open socket", "send", "close socket">>
      [] exit = "no content" -> <<"open socket", "send", "deadline", "close socket">>
      [] exit = "ok" -> <<"open socket", "send", "deadline", "recv", "deadline",
                          "close socket">>

\* deviceDescription: res.Body.Close() is a plain call that follows the check of
\* the error of io.ReadAll.
DdExits == {"http.Get", "ReadAll", "status", "unparsed", "ok"}

deviceDescriptionEvents(exit) ==
    CASE exit = "http.Get" -> <<>>
      [] exit = "ReadAll" -> <<"open body">>
      [] OTHER -> <<"open body", "read body", "close body">>

\* isValidService: res.Body.Close() is deferred right after http.Get has succeeded.
ScpdExits == {"http.Get", "ReadAll", "status", "xml.Unmarshal", "service is not valid", "ok"}

isValidServiceEvents(exit) ==
    CASE exit = "http.Get" -> <<>>
      [] exit = "ReadAll" -> <<"open body", "close body">>
      [] OTHER -> <<"open body", "read body", "close body">>

\* doRequest: res.Body.Close() is deferred right after client.Do has succeeded.
DoExits == {"client.Do", "ReadAll", "not ok", "xml.Unmarshal", "ok"}

doRequestEvents(exit) ==
    CASE exit = "client.Do" -> <<>>
      [] exit = "ReadAll" -> <<"open body", "close body">>
      [] OTHER -> <<"open body", "read body", "close body">>

\* GetLocalIPAddr: DialUDP connects the socket without sending; SetDeadline gets
\* time.Unix(0, 0); conn.Close() is deferred; LocalAddr reads the local end.
\* When DialUDP fails there is no socket and LocalAddr().String() panics.
LocalIPExits == {"ok", "panic"}

\* As GetLocalIPAddrEvents, but a datagram is written to learn the route.
GetLocalIPAddrEvents_Writes(exit) ==
    CASE exit = "ok" -> <<"open socket", "past deadline", "send", "local addr",
                          "close socket">>
      [] exit = "panic" -> <<>>

GetLocalIPAddrEvents(exit) ==
    CASE exit = "ok" -> <<"open socket", "past deadline", "local addr", "close socket">>
      [] exit = "panic" -> <<>>

\* The resources an operation has opened and not closed.
CountOf(events, names) == Cardinality({i \in 1..Len(events) : events[i] \in names})

StillOpen(events) ==
    CountOf(events, {"open socket", "open body"})
      - CountOf(events, {"close socket", "close body"})

\* One operation runs from call to return.
Ran(op, exit, events) ==
    /\ pc = "ops"
    /\ Len(rsrc.ops) < MaxOps
    /\ rsrc' = [ops    |-> Append(rsrc.ops, [op |-> op, exit |-> exit]),
                events |-> events,
                open   |-> rsrc.open + StillOpen(events)]
    /\ UNCHANGED <<pc, jp, localIP, sock, sent, inbox, res, headers, discErr, ddOracle,
                   scpdOracle, hi, errs, ddLog, probeLog, svc, resErr, client, newErr,
                   call, duo, probe, udp>>

RunUdpRequest == \E exit \in UdpExits : Ran("udpRequest", exit, udpRequestEvents(exit))

RunDeviceDescription ==
    \E exit \in DdExits : Ran("deviceDescription", exit, deviceDescriptionEvents(exit))

RunIsValidService ==
    \E exit \in ScpdExits : Ran("isValidService", exit, isValidServiceEvents(exit))

RunDoRequest == \E exit \in DoExits : Ran("doRequest", exit, doRequestEvents(exit))

RunGetLocalIPAddr ==
    \E exit \in LocalIPExits : Ran("GetLocalIPAddr", exit, GetLocalIPAddrEvents(exit))

InitRelease ==
    /\ Fresh("ops", NoJoin, "", <<>>, <<>>, NilClient)
    /\ udp = ZeroUdp
    /\ ddOracle = NoOracle
    /\ scpdOracle = NoOracle

NextRelease ==
    \/ RunUdpRequest
    \/ RunDeviceDescription
    \/ RunIsValidService
    \/ RunDoRequest
    \/ RunGetLocalIPAddr

SpecRelease == InitRelease /\ [][NextRelease]_vars

(***************************************************************************)
(* The SOAP layer: newEnvelopeReq, doRequest and the three action methods. *)
(***************************************************************************)
NilPtr == [isNil |-> TRUE]

Ptr(v) == [isNil |-> FALSE, value |-> v]

\* The body of a decoded envelope before any element is read.
ZeroBody ==
    [AddPortMappingResponse |-> NilPtr, DeletePortMappingResponse |-> NilPtr,
     GetExternalIPAddressResponse |-> NilPtr]

ZeroEnvelope == [Body |-> ZeroBody]

ZeroAddPortMappingResponse == [type |-> "AddPortMappingResponse"]

ZeroDeletePortMappingResponse == [type |-> "DeletePortMappingResponse"]

ZeroGetExternalIPAddressResponse ==
    [type |-> "GetExternalIPAddressResponse", NewExternalIPAddress |-> ""]

\* xml.Unmarshal of the elements of <Body>, in document order: an element sets
\* the pointer field of its name, and a child element sets the field of its name.
RECURSIVE unmarshalBody(_, _)
unmarshalBody(elems, b) ==
    IF elems = <<>> THEN b
    ELSE
      LET e   == Head(elems)
          old == IF b.GetExternalIPAddressResponse.isNil
                 THEN ZeroGetExternalIPAddressResponse
                 ELSE b.GetExternalIPAddressResponse.value
          ips == SelectSeq(e.children, LAMBDA c : c.name = "NewExternalIPAddress")
          new == IF ips = <<>> THEN old
                 ELSE [old EXCEPT !.NewExternalIPAddress = ips[Len(ips)].text]
      IN  unmarshalBody(Tail(elems),
            CASE e.name = "AddPortMappingResponse" ->
                   [b EXCEPT !.AddPortMappingResponse = Ptr(ZeroAddPortMappingResponse)]
              [] e.name = "DeletePortMappingResponse" ->
                   [b EXCEPT !.DeletePortMappingResponse =
                                 Ptr(ZeroDeletePortMappingResponse)]
              [] e.name = "GetExternalIPAddressResponse" ->
                   [b EXCEPT !.GetExternalIPAddressResponse = Ptr(new)]
              [] OTHER -> b)

\* As newEnvelopeReq, but the request goes to the controlURL as the document gives
\* it, not joined to the base location.
newEnvelopeReq_BareControlURL(action, s, b) ==
    [method      |-> "POST",
     url         |-> s.ControlURL,
     SOAPAction  |-> <<"\"">> \o s.ServiceType \o <<"#", action, "\"">>,
     ContentType |-> "text/xml; charset=utf-8",
     body        |-> b]

newEnvelopeReq(action, s, b) ==
    [method      |-> "POST",
     url         |-> joinPath(<<s.Location, s.ControlURL>>),
     SOAPAction  |-> <<"\"">> \o s.ServiceType \o <<"#", action, "\"">>,
     ContentType |-> "text/xml; charset=utf-8",
     body        |-> b]

\* As doRequest, but the status of the answer is not looked at.
doRequest_IgnoresStatus(req, answer) ==
    IF ~answer.transport
    THEN [env |-> ZeroEnvelope, err |-> Err("client.Do"), posts |-> <<req>>]
    ELSE IF ~answer.body.parses
      THEN [env |-> ZeroEnvelope, err |-> Err("xml.Unmarshal"), posts |-> <<req>>]
    ELSE [env |-> [Body |-> unmarshalBody(answer.body.elems, ZeroBody)], err |-> NoErr,
          posts |-> <<req>>]

\* doRequest, given the answer of the endpoint to the request: client.Do is
\* called once, and posts lists the requests handed to it.
doRequest(req, answer) ==
    IF ~answer.transport
    THEN [env |-> ZeroEnvelope, err |-> Err("client.Do"), posts |-> <<req>>]
    ELSE IF answer.status # StatusOKCode
      THEN [env |-> ZeroEnvelope,
            err |-> [kind |-> "not ok", status |-> answer.status, body |-> answer.body.raw],
            posts |-> <<req>>]
    ELSE IF ~answer.body.parses
      THEN [env |-> ZeroEnvelope, err |-> Err("xml.Unmarshal"), posts |-> <<req>>]
    ELSE [env |-> [Body |-> unmarshalBody(answer.body.elems, ZeroBody)], err |-> NoErr,
          posts |-> <<req>>]

\* As AddPortMappingRequestOf, but NewInternalClient is always the local IP.
AddPortMappingRequestOf_AlwaysLocal(c, msg) ==
    [[msg EXCEPT !.NewInternalClient = c.LocalIP]
       EXCEPT !.XMLNS = c.service.ServiceType]

AddPortMappingRequestOf(c, msg) ==
    [[msg EXCEPT !.NewInternalClient = IF @ = "" THEN c.LocalIP ELSE @]
       EXCEPT !.XMLNS = c.service.ServiceType]

AddPortMapping_NilIsError(c, msg, answer) ==
    LET req == newEnvelopeReq(addPortMapping, c.service,
                              [AddPortMappingRequest |-> AddPortMappingRequestOf(c, msg)])
        r   == doRequest(req, answer)
    IN  IF r.err # NoErr
        THEN [req |-> req, posts |-> r.posts, resp |-> ZeroAddPortMappingResponse, err |-> r.err]
        ELSE IF r.env.Body.AddPortMappingResponse.isNil
          THEN [req |-> req, posts |-> r.posts, resp |-> ZeroAddPortMappingResponse,
                err |-> Err("no response element")]
        ELSE [req |-> req, posts |-> r.posts, resp |-> r.env.Body.AddPortMappingResponse.value,
              err |-> NoErr]

AddPortMapping(c, msg, answer) ==
    LET req == newEnvelopeReq(addPortMapping, c.service,
                              [AddPortMappingRequest |-> AddPortMappingRequestOf(c, msg)])
        r   == doRequest(req, answer)
    IN  IF r.err # NoErr
        THEN [req |-> req, posts |-> r.posts, resp |-> ZeroAddPortMappingResponse, err |-> r.err]
        ELSE IF r.env.Body.AddPortMappingResponse.isNil
          THEN [req |-> req, posts |-> r.posts, resp |-> ZeroAddPortMappingResponse, err |-> NoErr]
        ELSE [req |-> req, posts |-> r.posts, resp |-> r.env.Body.AddPortMappingResponse.value,
              err |-> NoErr]

\* As DeletePortMapping, but a request that failed is sent a second time.
DeletePortMapping_Retries(c, msg, answer) ==
    LET req == newEnvelopeReq(deletePortMapping, c.service,
                 [DeletePortMappingRequest |-> [msg EXCEPT !.XMLNS = c.service.ServiceType]])
        r   == doRequest(req, answer)
        r2  == doRequest(req, answer)
    IN  IF r.err # NoErr
        THEN [req |-> req, posts |-> r.posts \o r2.posts,
              resp |-> ZeroDeletePortMappingResponse, err |-> r2.err]
        ELSE IF r.env.Body.DeletePortMappingResponse.isNil
          THEN [req |-> req, posts |-> r.posts, resp |-> ZeroDeletePortMappingResponse,
                err |-> NoErr]
        ELSE [req |-> req, posts |-> r.posts,
              resp |-> r.env.Body.DeletePortMappingResponse.value, err |-> NoErr]

DeletePortMapping(c, msg, answer) ==
    LET req == newEnvelopeReq(deletePortMapping, c.service,
                 [DeletePortMappingRequest |-> [msg EXCEPT !.XMLNS = c.service.ServiceType]])
        r   == doRequest(req, answer)
    IN  IF r.err # NoErr
        THEN [req |-> req, posts |-> r.posts, resp |-> ZeroDeletePortMappingResponse, err |-> r.err]
        ELSE IF r.env.Body.DeletePortMappingResponse.isNil
          THEN [req |-> req, posts |-> r.posts, resp |-> ZeroDeletePortMappingResponse, err |-> NoErr]
        ELSE [req |-> req, posts |-> r.posts, resp |-> r.env.Body.DeletePortMappingResponse.value,
              err |-> NoErr]

GetExternalIPAddress_DropsValue(c, answer) ==
    LET req == newEnvelopeReq(getExternalIPAddress, c.service,
                 [GetExternalIPAddressRequest |-> [XMLNS |-> c.service.ServiceType]])
        r   == doRequest(req, answer)
    IN  [req |-> req, posts |-> r.posts, resp |-> ZeroGetExternalIPAddressResponse, err |-> r.err]

GetExternalIPAddress(c, answer) ==
    LET req == newEnvelopeReq(getExternalIPAddress, c.service,
                 [GetExternalIPAddressRequest |-> [XMLNS |-> c.service.ServiceType]])
        r   == doRequest(req, answer)
    IN  IF r.err # NoErr
        THEN [req |-> req, posts |-> r.posts, resp |-> ZeroGetExternalIPAddressResponse, err |-> r.err]
        ELSE IF r.env.Body.GetExternalIPAddressResponse.isNil
          THEN [req |-> req, posts |-> r.posts, resp |-> ZeroGetExternalIPAddressResponse, err |-> NoErr]
        ELSE [req |-> req, posts |-> r.posts, resp |-> r.env.Body.GetExternalIPAddressResponse.value,
              err |-> NoErr]

(***************************************************************************)
(* The control endpoint and the callers of the action methods.             *)
(***************************************************************************)
IPs == {"1.2.3.4", "203.0.113.7"}

Elements ==
    {[name |-> n, children |-> <<>>] :
        n \in {"AddPortMappingResponse", "DeletePortMappingResponse",
               "GetExternalIPAddressResponse", "Fault"}}
    \cup {[name |-> "GetExternalIPAddressResponse",
           children |-> <<[name |-> "NewExternalIPAddress", text |-> ip]>>] : ip \in IPs}

CtlFailure ==
    [transport |-> FALSE, status |-> 0,
     body |-> [raw |-> "", parses |-> FALSE, elems |-> <<>>]]

CtlResponse(status, raw, parses, elems) ==
    [transport |-> TRUE, status |-> status,
     body |-> [raw |-> raw, parses |-> parses, elems |-> elems]]

\* A fault answer: status 500 with a body that is itself an envelope.
FaultElems ==
    <<[name |-> "GetExternalIPAddressResponse",
       children |-> <<[name |-> "NewExternalIPAddress", text |-> "1.2.3.4"]>>]>>

ControlAnswers ==
    {CtlFailure, CtlResponse(500, "internal error", FALSE, <<>>),
     CtlResponse(500, "fault envelope", TRUE, FaultElems),
     CtlResponse(404, "not found", FALSE, <<>>),
     CtlResponse(200, "not xml", FALSE, <<>>)}
    \cup {CtlResponse(200, "envelope", TRUE, es) : es \in SeqsUpTo(Elements, MaxElems)}

\* http.Client.Do reaches an endpoint only through an absolute http URL.
IsHttpUrl(url) == Len(url) >= 4 /\ SubSeq(url, 1, 3) = <<"http:", "/", "/">>

AnswersTo(req) == {a \in ControlAnswers : IsHttpUrl(req.url) \/ ~a.transport}

\* The XMLNS field is exported: the caller may leave it empty or fill it in (the
\* messages below carry a namespace of the caller only with the UDP protocol).
CallerXMLNS == {EmptyStr, <<"urn:caller">>}

AddPortMappingRequests ==
    {m \in [XMLNS : CallerXMLNS, NewExternalPort : {5000}, NewProtocol : {"TCP", "UDP"},
            NewInternalPort : {5000}, NewInternalClient : {"", "192.168.1.50"},
            NewEnabled : {1}, NewPortMappingDescription : {"testing"},
            NewLeaseDuration : {0, 1440}] :
        m.XMLNS = EmptyStr \/ (m.NewProtocol = "UDP" /\ m.NewLeaseDuration = 0)}

DeletePortMappingRequests ==
    {m \in [XMLNS : CallerXMLNS, NewExternalPort : {5000}, NewProtocol : {"TCP", "UDP"}] :
        m.XMLNS = EmptyStr \/ m.NewProtocol = "UDP"}

HasClient == pc = "returned" /\ client # NilClient

CallAddPortMapping ==
    /\ HasClient
    /\ \E msg \in AddPortMappingRequests :
       \E answer \in AnswersTo(AddPortMapping(client, msg, CtlFailure).req) :
         LET r == AddPortMapping(client, msg, answer)
         IN  call' = [action |-> addPortMapping, msg |-> msg, req |-> r.req, posts |-> r.posts,
                      answer |-> answer, resp |-> r.resp, err |-> r.err]
    /\ UNCHANGED <<duo, probe, udp, rsrc>>
    /\ UNCHANGED <<pc, jp, localIP, sock, sent, inbox, res, headers, discErr, ddOracle,
                   scpdOracle, hi, errs, ddLog, probeLog, svc, resErr, client, newErr>>

\* As CallDeletePortMapping, but a failed call resolves the service again.
CallDeletePortMapping_Rebinds ==
    /\ HasClient
    /\ \E msg \in DeletePortMappingRequests :
       \E answer \in AnswersTo(DeletePortMapping(client, msg, CtlFailure).req) :
         LET r == DeletePortMapping(client, msg, answer)
         IN  /\ call' = [action |-> deletePortMapping, msg |-> msg, req |-> r.req,
                         posts |-> r.posts, answer |-> answer, resp |-> r.resp,
                         err |-> r.err]
             /\ probeLog' = IF r.err # NoErr THEN Append(probeLog, client.service)
                            ELSE probeLog
    /\ UNCHANGED <<duo, probe, udp, rsrc>>
    /\ UNCHANGED <<pc, jp, localIP, sock, sent, inbox, res, headers, discErr, ddOracle,
                   scpdOracle, hi, errs, ddLog, svc, resErr, client, newErr>>

CallDeletePortMapping ==
    /\ HasClient
    /\ \E msg \in DeletePortMappingRequests :
       \E answer \in AnswersTo(DeletePortMapping(client, msg, CtlFailure).req) :
         LET r == DeletePortMapping(client, msg, answer)
         IN  call' = [action |-> deletePortMapping, msg |-> msg, req |-> r.req, posts |-> r.posts,
                      answer |-> answer, resp |-> r.resp, err |-> r.err]
    /\ UNCHANGED <<duo, probe, udp, rsrc>>
    /\ UNCHANGED <<pc, jp, localIP, sock, sent, inbox, res, headers, discErr, ddOracle,
                   scpdOracle, hi, errs, ddLog, probeLog, svc, resErr, client, newErr>>

CallGetExternalIPAddress ==
    /\ HasClient
    /\ \E answer \in AnswersTo(GetExternalIPAddress(client, CtlFailure).req) :
         LET r == GetExternalIPAddress(client, answer)
         IN  call' = [action |-> getExternalIPAddress, msg |-> [XMLNS |-> EmptyStr],
                      req |-> r.req, posts |-> r.posts, answer |-> answer,
                      resp |-> r.resp, err |-> r.err]
    /\ UNCHANGED <<duo, probe, udp, rsrc>>
    /\ UNCHANGED <<pc, jp, localIP, sock, sent, inbox, res, headers, discErr, ddOracle,
                   scpdOracle, hi, errs, ddLog, probeLog, svc, resErr, client, newErr>>

\* The action methods alone, on every Client that New can return.
BoundServices ==
    {[s EXCEPT !.Location = b] : s \in Services, b \in Bases} \cup {ZeroService}

InitCall ==
    /\ \E ip \in LocalIPs :
       \E s \in BoundServices :
         Fresh("returned", NoJoin, ip, <<>>, <<>>,
               [kind |-> "client", LocalIP |-> ip, service |-> s])
    /\ udp = ZeroUdp
    /\ ddOracle = NoOracle
    /\ scpdOracle = NoOracle


NextCall == CallAddPortMapping \/ CallDeletePortMapping \/ CallGetExternalIPAddress

SpecCall == InitCall /\ [][NextCall]_vars

(***************************************************************************)
(* Two Clients in use at the same time.  An action call takes two steps: it *)
(* builds its request from its Client and the caller's message, then hands  *)
(* the request to the HTTP client and turns the answer into its result.     *)
(* The steps of the calls on the two Clients interleave.                    *)
(***************************************************************************)
DuoIds == {1, 2}

Other(i) == CHOOSE j \in DuoIds : j # i

ClientOf(ip, s, base) ==
    [kind |-> "client", LocalIP |-> ip, service |-> [s EXCEPT !.Location = base]]

\* Two distinct Clients, bound to different services or to the same one.
DuoClients ==
    {<<ClientOf("192.168.1.2", SvcA, <<"http:", "/", "/", "hA">>), c2>> :
        c2 \in {ClientOf("192.168.1.3", SvcB, <<"http:", "/", "/", "hB">>),
                ClientOf("192.168.1.3", SvcA, <<"http:", "/", "/", "hA">>)}}

DuoMsgs(action) ==
    CASE action = addPortMapping ->
           {m \in AddPortMappingRequests :
               m.NewProtocol = "TCP" /\ m.NewLeaseDuration = 0 /\ m.XMLNS = EmptyStr}
      [] action = deletePortMapping ->
           {m \in DeletePortMappingRequests :
               m.NewProtocol = "UDP" /\ m.XMLNS = EmptyStr}
      [] action = getExternalIPAddress -> {[XMLNS |-> EmptyStr]}

DuoAnswers ==
    {CtlFailure, CtlResponse(500, "internal error", FALSE, <<>>),
     CtlResponse(200, "envelope", TRUE, <<>>)}
    \cup {CtlResponse(200, "envelope", TRUE, <<e>>) :
            e \in {x \in Elements : x.children # <<>>}}

\* The method of the given name, applied to the Client, message and answer.
methodResult(action, c, msg, answer) ==
    CASE action = addPortMapping -> AddPortMapping(c, msg, answer)
      [] action = deletePortMapping -> DeletePortMapping(c, msg, answer)
      [] action = getExternalIPAddress -> GetExternalIPAddress(c, answer)

\* newEnvelopeReq in a call on Client i: the request is built.
DuoBuild(i) ==
    /\ pc = "duo"
    /\ duo[i].at \in {"idle", "done"}
    /\ \E action \in requiredActionNames :
       \E msg \in DuoMsgs(action) :
         duo' = [duo EXCEPT ![i] =
                   [client |-> @.client, at |-> "built",
                    call |-> [action |-> action, msg |-> msg,
                              req |-> methodResult(action, @.client, msg, CtlFailure).req]]]
    /\ UNCHANGED <<pc, jp, localIP, sock, sent, inbox, res, headers, discErr, ddOracle,
                   scpdOracle, hi, errs, ddLog, probeLog, svc, resErr, client, newErr,
                   call, probe, udp, rsrc>>

\* As DuoDo, but the request is taken from a buffer the two Clients share: the
\* request sent is the one built last.
DuoDo_SharedRequest(i) ==
    /\ pc = "duo"
    /\ duo[i].at = "built"
    /\ LET src == IF duo[Other(i)].at = "built" THEN duo[Other(i)] ELSE duo[i]
       IN  \E answer \in {a \in DuoAnswers : IsHttpUrl(src.call.req.url) \/ ~a.transport} :
             LET r == methodResult(src.call.action, src.client, src.call.msg, answer)
             IN  duo' = [duo EXCEPT ![i] =
                           [client |-> @.client, at |-> "done",
                            call |-> [action |-> @.call.action, msg |-> @.call.msg,
                                      req |-> src.call.req, answer |-> answer,
                                      resp |-> r.resp, err |-> r.err]]]
    /\ UNCHANGED <<pc, jp, localIP, sock, sent, inbox, res, headers, discErr, ddOracle,
                   scpdOracle, hi, errs, ddLog, probeLog, svc, resErr, client, newErr,
                   call, probe, udp, rsrc>>

\* doRequest and the return of the method in a call on Client i.
DuoDo(i) ==
    /\ pc = "duo"
    /\ duo[i].at = "built"
    /\ \E answer \in {a \in DuoAnswers : IsHttpUrl(duo[i].call.req.url) \/ ~a.transport} :
         LET r == methodResult(duo[i].call.action, duo[i].client, duo[i].call.msg, answer)
         IN  duo' = [duo EXCEPT ![i] =
                       [client |-> @.client, at |-> "done",
                        call |-> [action |-> @.call.action, msg |-> @.call.msg,
                                  req |-> @.call.req, answer |-> answer,
                                  resp |-> r.resp, err |-> r.err]]]
    /\ UNCHANGED <<pc, jp, localIP, sock, sent, inbox, res, headers, discErr, ddOracle,
                   scpdOracle, hi, errs, ddLog, probeLog, svc, resErr, client, newErr,
                   call, probe, udp, rsrc>>

InitDuo ==
    /\ pc = "duo"
    /\ jp = NoJoin /\ localIP = "" /\ sock = "none" /\ sent = 0 /\ inbox = <<>>
    /\ res = <<>> /\ headers = <<>> /\ discErr = NoErr /\ hi = 1 /\ errs = <<>>
    /\ ddLog = <<>> /\ probeLog = <<>> /\ svc = ZeroService /\ resErr = NoErr
    /\ client = NilClient /\ newErr = NoErr /\ call = NoCall
    /\ probe = NoProbe /\ udp = ZeroUdp /\ rsrc = NoRsrc
    /\ ddOracle = NoOracle
    /\ scpdOracle = NoOracle
    /\ \E cs \in DuoClients :
         duo = [i \in DuoIds |-> [client |-> cs[i], at |-> "idle", call |-> NoCall]]

NextDuo == \E i \in DuoIds : DuoBuild(i) \/ DuoDo(i)

SpecDuo == InitDuo /\ [][NextDuo]_vars

\* New from its first statement to its return, on a network that delivers some
\* datagrams and serves some documents.
NewDatagrams == {dgA, dgB, dg404}

NewDdResponses ==
    {Response(500, Unparseable),
     Response(200, [parses |-> TRUE, root |-> [BaseUrl |-> EmptyStr, Device |-> ZeroDevice]]),
     Response(200, [parses |-> TRUE,
                    root |-> [BaseUrl |-> EmptyStr,
                              Device |-> [ServiceList |-> <<SvcB>>,
                                          DeviceList |-> <<[ServiceList |-> <<SvcA>>,
                                                            DeviceList |-> <<>>]>>]]])}

NewScpdResponses ==
    {Response(200, [parses |-> TRUE, actions |-> <<"GetStatusInfo">>]),
     Response(200, [parses |-> TRUE, actions |-> <<"GetStatusInfo", addPortMapping>>])}

Init ==
    /\ \E ib \in SeqsUpTo(NewDatagrams, MaxDatagrams) :
         Fresh("New", NoJoin, "", ib, <<>>, NilClient)
    /\ udp = ZeroUdp
    /\ ddOracle \in [Locations -> NewDdResponses]
    /\ scpdOracle \in [UrlsOf(ddOracle) -> NewScpdResponses]

Next ==
    \/ NewStart
    \/ UdpBind
    \/ UdpSend
    \/ UdpRead
    \/ UdpReadStop
    \/ DiscoverParse
    \/ NewAfterDiscover
    \/ UpnpServiceStep
    \/ UpnpServiceEnd
    \/ NewReturn

Spec == Init /\ [][Next]_vars

\* The life of a Client: New, then any sequence of action calls on the Client
\* it returned.
LifeDdResponses ==
    {r \in NewDdResponses : r.status = 200 => r.body.root.Device # ZeroDevice}

InitLife ==
    /\ Fresh("New", NoJoin, "", <<dgB, dgA>>, <<>>, NilClient)
    /\ udp = ZeroUdp
    /\ ddOracle \in [Locations -> LifeDdResponses]
    /\ scpdOracle =
         [u \in UrlsOf(ddOracle) |->
            IF Last(u) = Last(SvcA.SCPDURL)
            THEN Response(200, [parses |-> TRUE,
                                actions |-> <<"GetStatusInfo", addPortMapping>>])
            ELSE IF u[4] = "hB" THEN Response(200, Unparseable)
            ELSE Response(200, [parses |-> TRUE, actions |-> <<"GetStatusInfo">>])]

NextLife == Next \/ NextCall

SpecLife == InitLife /\ [][NextLife]_vars


(***************************************************************************)
(* Properties of discovery.                                                *)
(***************************************************************************)
\* A header line: one field name, a colon, a value.
GoodHeaderLine(l) == Len(l) >= 2 /\ l[1] \in KeyTokens /\ l[2] = ":"

LinesOf(block) == Split(block, "\n")

\* The header block ends with an empty line, itself ended by a line feed, and
\* every line before it is a header line.
EndOfHeaders(block) ==
    LET ls == LinesOf(block)
    IN  {n \in 1..(Len(ls) - 1) :
            /\ TrimCR(ls[n]) = <<>>
            /\ \A m \in 1..(n - 1) : GoodHeaderLine(TrimCR(ls[m]))}

\* A well-formed 200-status reply: a status line of at least three fields
\* separated by single spaces, the second of which is 200, then a header block.
WellFormed200(dg) ==
    \E nl \in 1..Len(dg) :
      /\ dg[nl] = "\n"
      /\ \A j \in 1..(nl - 1) : dg[j] # "\n"
      /\ \E sp1, sp2 \in 1..(nl - 1) :
           /\ sp1 < sp2
           /\ dg[sp1] = " " /\ dg[sp2] = " "
           /\ \A j \in 1..(sp1 - 1) : dg[j] # " "
           /\ sp2 = sp1 + 2
           /\ dg[sp1 + 1] = "200"
      /\ EndOfHeaders(SubSeq(dg, nl + 1, Len(dg))) # {}

\* The header map a well-formed reply carries: under each canonical key the
\* values of the lines with that key, in order, without the spaces around them.
HeaderMapOf(dg) ==
    LET block == SubSeq(dg, IndexOf(dg, "\n") + 1, Len(dg))
        ls    == LinesOf(block)
        end   == CHOOSE n \in EndOfHeaders(block) : \A m \in EndOfHeaders(block) : n <= m
        lines == [m \in 1..(end - 1) |-> TrimCR(ls[m])]
    IN  [k \in HeaderKeys |->
           LET mine == SelectSeq(lines, LAMBDA l : CanonicalMIMEHeaderKey(l[1]) = k)
           IN  [i \in 1..Len(mine) |-> Trim(SubSeq(mine[i], 3, Len(mine[i])), " ")]]

WellFormedOf(dgs) == SelectSeq(dgs, WellFormed200)

Interior(s) ==
    LET kept == {i \in 1..Len(s) : s[i] # "/"}
    IN  IF kept = {} THEN <<>>
        ELSE SubSeq(s, CHOOSE i \in kept : \A j \in kept : i <= j,
                       CHOOSE i \in kept : \A j \in kept : j <= i)

ExampleJoined ==
    <<"http:", "/", "/", "10.0.0.1:1234", "/", "desc", "/", "ctl", "/", "1">>

\* C8: joinPath(base, rel) is the interior of base, one "/", the interior of rel,
\* whatever slashes lead or trail either argument; the documented example yields
\* "http://10.0.0.1:1234/desc/ctl/1".
C8_JoinPathOneSlash ==
    pc = "joined" =>
        /\ jp.out = Interior(jp.base) \o <<"/">> \o Interior(jp.rel)
        /\ (jp.base = ExampleBase /\ jp.rel = ExampleRel) => jp.out = ExampleJoined

C8_Witness ==
    /\ pc = "joined"
    /\ jp.base = ExampleBase
    /\ jp.rel = ExampleRel
    /\ jp.out = ExampleJoined


(***************************************************************************)
(* Properties of resolution.                                               *)
(***************************************************************************)
\* The services of a tree in depth-first pre-order: those of the device, in list
\* order, then those of each child device, in list order.
RECURSIVE Preorder(_)
Preorder(d) ==
    d.ServiceList \o Flatten([i \in 1..Len(d.DeviceList) |-> Preorder(d.DeviceList[i])])

\* Scheme, host and port of a URL: what precedes its third slash.
SchemeHostPort(loc) ==
    LET slashes == {i \in 1..Len(loc) : loc[i] = "/"}
        third   == CHOOSE i \in slashes : Cardinality({j \in slashes : j < i}) = 2
    IN  IF Cardinality(slashes) < 2 THEN [ok |-> FALSE, base |-> EmptyStr]
        ELSE IF Cardinality(slashes) = 2 THEN [ok |-> TRUE, base |-> loc]
        ELSE [ok |-> TRUE, base |-> SubSeq(loc, 1, third - 1)]

\* The services resolution can take from one reply, in traversal order, each
\* with the base location of that reply: none when the description was not
\* served with status 200 or no base location can be derived.
ReplyCandidates(h) ==
    LET loc  == HeaderGet(h, "location")
        resp == DdFetch(loc)
        root == Decoded(resp.body)
        shp  == SchemeHostPort(loc)
        base == IF root.BaseUrl # EmptyStr THEN root.BaseUrl ELSE shp.base
        pre  == Preorder(root.Device)
    IN  IF ~resp.transport \/ resp.status # 200 THEN <<>>
        ELSE IF root.BaseUrl = EmptyStr /\ ~shp.ok THEN <<>>
        ELSE [i \in 1..Len(pre) |-> [pre[i] EXCEPT !.Location = base]]

AllCandidates == Flatten([i \in 1..Len(headers) |-> ReplyCandidates(headers[i])])

\* The SCPD probe of s is accepted: status 200, a body that parses, and an action
\* list with one of the three required actions.
Accepted(s) ==
    LET resp == ScpdFetch(Interior(s.Location) \o <<"/">> \o Interior(s.SCPDURL))
    IN  /\ resp.transport
        /\ resp.status = 200
        /\ resp.body.parses
        /\ \E i \in 1..Len(resp.body.actions) :
             resp.body.actions[i] \in {"AddPortMapping", "DeletePortMapping",
                                       "GetExternalIPAddress"}

AcceptedCandidates == {j \in 1..Len(AllCandidates) : Accepted(AllCandidates[j])}

ProbeAccepted == \E k \in 1..Len(probeLog) : Accepted(probeLog[k])

\* C2: when resolution returns success, the service returned occurs in the tree
\* of one of the replies and its SCPD probe was issued and accepted.
C2_ReturnedServiceWasProbedAndAccepted ==
    (pc = "resolved" /\ resErr = NoErr) =>
        /\ \E j \in 1..Len(AllCandidates) : AllCandidates[j] = svc
        /\ \E k \in 1..Len(probeLog) : probeLog[k] = svc
        /\ Accepted(svc)

\* C3: once an SCPD probe is accepted it is the last probe, and no probe and no
\* device-description fetch is issued after it.
C3_ShortCircuit ==
    /\ [](\A k \in 1..Len(probeLog) : Accepted(probeLog[k]) => k = Len(probeLog))
    /\ [][ProbeAccepted => (probeLog' = probeLog /\ ddLog' = ddLog)]_vars

C3_Witness ==
    /\ pc = "resolved"
    /\ ProbeAccepted
    /\ svc = Last(probeLog)
    /\ Len(probeLog) >= 2
    /\ Len(probeLog) < Len(AllCandidates)
    /\ Len(ddLog) < Len(headers)

\* C4: when some service of some reply's tree would be accepted, resolution
\* succeeds and returns the earliest such service in reply order, then pre-order.
C4_FirstValidServiceWins ==
    (pc = "resolved" /\ AcceptedCandidates # {}) =>
        /\ resErr = NoErr
        /\ svc = AllCandidates[CHOOSE j \in AcceptedCandidates :
                                  \A m \in AcceptedCandidates : j <= m]

\* C5: when no service of any reply's tree is accepted, resolution returns a
\* non-nil error.
C5_NoAcceptedServiceIsAnError ==
    (pc = "resolved" /\ AcceptedCandidates = {}) => resErr # NoErr


(***************************************************************************)
(* Properties of New.                                                      *)
(***************************************************************************)
\* C6: New returns either a Client bound to the resolved service with a nil
\* error, or no Client with a non-nil error; the error of a failed discovery is
\* returned before any resolution step, and the error of a failed resolution is
\* returned as it is.
C6_NewReturnsClientOrError ==
    pc = "returned" =>
        /\ \/ client # NilClient /\ newErr = NoErr
           \/ client = NilClient /\ newErr # NoErr
        /\ client # NilClient => (client.service = svc /\ client.LocalIP = localIP)
        /\ discErr # NoErr =>
             (newErr = discErr /\ ddLog = <<>> /\ probeLog = <<>> /\ errs = <<>>)
        /\ (discErr = NoErr /\ resErr # NoErr) => newErr = resErr

C6_Witness ==
    /\ pc = "returned"
    /\ discErr = NoErr
    /\ resErr # NoErr
    /\ probeLog # <<>>
    /\ client = NilClient
    /\ newErr = resErr

(***************************************************************************)
(* Properties of the action calls.                                         *)
(***************************************************************************)
Answered200(c) == c.answer.transport /\ c.answer.status = 200 /\ c.answer.body.parses

ElementsNamed(c, n) ==
    {i \in 1..Len(c.answer.body.elems) : c.answer.body.elems[i].name = n}

\* C9: when the endpoint answers 200 with an envelope that decodes, AddPortMapping
\* and DeletePortMapping return the zero response and a nil error, whether the
\* body holds an empty response element of the action or none at all.
C9_EmptyAck ==
    (call.action \in {"AddPortMapping", "DeletePortMapping"} /\ Answered200(call)) =>
        /\ call.err = NoErr
        /\ call.resp = IF call.action = "AddPortMapping"
                       THEN [type |-> "AddPortMappingResponse"]
                       ELSE [type |-> "DeletePortMappingResponse"]

C9_Witness ==
    /\ call.action = "AddPortMapping"
    /\ Answered200(call)
    /\ ElementsNamed(call, "AddPortMappingResponse") = {}
    /\ call.err = NoErr
    /\ call.resp = ZeroAddPortMappingResponse

\* C10: when the endpoint answers 200 with one GetExternalIPAddressResponse
\* element carrying NewExternalIPAddress = v, GetExternalIPAddress returns a
\* response whose NewExternalIPAddress is v, and a nil error.
C10_ExternalIPIsDecoded ==
    (call.action = "GetExternalIPAddress" /\ Answered200(call)) =>
        \A i \in ElementsNamed(call, "GetExternalIPAddressResponse") :
            (/\ ElementsNamed(call, "GetExternalIPAddressResponse") = {i}
             /\ Len(call.answer.body.elems[i].children) = 1) =>
                /\ call.err = NoErr
                /\ call.resp.NewExternalIPAddress =
                       call.answer.body.elems[i].children[1].text

C10_Witness ==
    /\ call.action = "GetExternalIPAddress"
    /\ Answered200(call)
    /\ call.answer.body.elems =
         <<[name |-> "GetExternalIPAddressResponse",
            children |-> <<[name |-> "NewExternalIPAddress", text |-> "1.2.3.4"]>>]>>
    /\ call.err = NoErr
    /\ call.resp.NewExternalIPAddress = "1.2.3.4"

ZeroResponseOf(action) ==
    CASE action = "AddPortMapping" -> [type |-> "AddPortMappingResponse"]
      [] action = "DeletePortMapping" -> [type |-> "DeletePortMappingResponse"]
      [] action = "GetExternalIPAddress" ->
           [type |-> "GetExternalIPAddressResponse", NewExternalIPAddress |-> ""]

\* C11: when the control endpoint answers with a status other than 200, each of
\* the three action methods returns a non-nil error that carries the status and
\* the raw body of the answer, and the zero response: nothing of the body is
\* decoded, even when the body is an envelope.
C11_Non200IsAnError ==
    (call.action # "none" /\ call.answer.transport /\ call.answer.status # 200) =>
        /\ call.err # NoErr
        /\ call.err = [kind |-> "not ok", status |-> call.answer.status,
                       body |-> call.answer.body.raw]
        /\ call.resp = ZeroResponseOf(call.action)

C11_Witness ==
    /\ call.action = "GetExternalIPAddress"
    /\ call.answer.status = 500
    /\ call.answer.body.parses
    /\ call.answer.body.elems # <<>>
    /\ call.err = [kind |-> "not ok", status |-> 500, body |-> "fault envelope"]
    /\ call.resp.NewExternalIPAddress = ""

(***************************************************************************)
(* Failure of discovery.                                                   *)
(***************************************************************************)
\* C12: when discover ends with no accepted reply it returns a non-nil error and
\* no headers; when datagrams were received, the error joins one non-nil error
\* for each of them.
C12_NoReplyIsAnError ==
    (pc = "discovered" /\ headers = <<>>) =>
        /\ discErr # NoErr
        /\ res # <<>> =>
             /\ discErr.kind = "join"
             /\ Len(discErr.errs) = Len(res)
             /\ \A i \in 1..Len(res) : discErr.errs[i] # NoErr

C12_Witness ==
    /\ pc = "discovered"
    /\ res = <<dg404, dgNoNL, dgBadHdr>>
    /\ headers = <<>>
    /\ discErr = [kind |-> "join",
                  errs |-> <<Err("not ok"), Err("invalid response"),
                             Err("malformed MIME header line")>>]

(***************************************************************************)
(* The Client after New.                                                   *)
(***************************************************************************)
\* C13: once New has returned a Client, no step changes the Client (its bound
\* service and its LocalIP), and no step sends a discovery datagram, fetches a
\* device description or probes an SCPD, whether the action call of the step
\* succeeds or fails.
C13_BoundServiceIsFrozen ==
    [][HasClient =>
         /\ client' = client
         /\ sent' = sent /\ sock' = sock /\ headers' = headers
         /\ ddLog' = ddLog
         /\ probeLog' = probeLog]_vars

C13_Witness ==
    /\ HasClient
    /\ probeLog # <<>>
    /\ call.action = "DeletePortMapping"
    /\ call.err # NoErr
    /\ client.service = Last(probeLog)
    /\ sent = 1

(***************************************************************************)
(* One request per action call.                                            *)
(***************************************************************************)
CallFailed(c) ==
    \/ ~c.answer.transport
    \/ c.answer.status # 200
    \/ ~c.answer.body.parses

\* C14: an action call hands at most one request, a POST to the control URL, to
\* the HTTP client; when that request fails in transport, is answered with a
\* status other than 200 or with a body that does not decode, the call returns
\* that failure as its error, with the zero response.
C14_NoRetry ==
    call.action # "none" =>
        /\ Len(call.posts) <= 1
        /\ \A i \in 1..Len(call.posts) :
             call.posts[i] = call.req /\ call.posts[i].method = "POST"
        /\ ~call.answer.transport => call.err = [kind |-> "client.Do"]
        /\ (call.answer.transport /\ call.answer.status # 200) =>
             call.err = [kind |-> "not ok", status |-> call.answer.status,
                         body |-> call.answer.body.raw]
        /\ (call.answer.transport /\ call.answer.status = 200
               /\ ~call.answer.body.parses) => call.err = [kind |-> "xml.Unmarshal"]
        /\ CallFailed(call) => call.resp = ZeroResponseOf(call.action)

C14_Witness ==
    /\ call.action = "DeletePortMapping"
    /\ ~call.answer.transport
    /\ Len(call.posts) = 1
    /\ call.err = [kind |-> "client.Do"]

(***************************************************************************)
(* The request AddPortMapping sends.                                       *)
(***************************************************************************)
SentAddPortMapping(c) == c.req.body.AddPortMappingRequest

\* C15: the AddPortMapping element sent holds the local IP of the Client as
\* NewInternalClient when the caller left it empty and the caller's value
\* otherwise, and the caller's external port, protocol, internal port, enabled
\* flag, description and lease duration as they were given.
C15_InternalClientDefault ==
    call.action = "AddPortMapping" =>
        /\ client.LocalIP = localIP
        /\ SentAddPortMapping(call).NewInternalClient =
               IF call.msg.NewInternalClient = "" THEN localIP
               ELSE call.msg.NewInternalClient
        /\ SentAddPortMapping(call).NewExternalPort = call.msg.NewExternalPort
        /\ SentAddPortMapping(call).NewProtocol = call.msg.NewProtocol
        /\ SentAddPortMapping(call).NewInternalPort = call.msg.NewInternalPort
        /\ SentAddPortMapping(call).NewEnabled = call.msg.NewEnabled
        /\ SentAddPortMapping(call).NewPortMappingDescription =
               call.msg.NewPortMappingDescription
        /\ SentAddPortMapping(call).NewLeaseDuration = call.msg.NewLeaseDuration

C15_Witness ==
    /\ call.action = "AddPortMapping"
    /\ call.msg.NewInternalClient = ""
    /\ call.msg.NewLeaseDuration = 1440
    /\ SentAddPortMapping(call).NewInternalClient = "192.168.1.2"
    /\ SentAddPortMapping(call).NewLeaseDuration = 1440

(***************************************************************************)
(* Faults.                                                                 *)
(***************************************************************************)
\* C16: no public operation ends in a panic: New, and GetLocalIPAddr inside it,
\* never reach the fault state, whatever the outcome of opening the UDP socket.
C16_NoPanic == pc # "panic"

(***************************************************************************)
(* Two Clients.                                                            *)
(***************************************************************************)
\* The request of the call in slot sl is made of the slot's own Client and
\* message: the control URL and the service type of its bound service, and for
\* AddPortMapping its own LocalIP when the message names no internal client.
OwnRequest(sl) ==
    LET s == sl.client.service
        b == sl.call.req.body
    IN  /\ sl.call.req.url = Interior(s.Location) \o <<"/">> \o Interior(s.ControlURL)
        /\ sl.call.req.SOAPAction = <<"\"">> \o s.ServiceType \o <<"#", sl.call.action, "\"">>
        /\ sl.call.action = "AddPortMapping" =>
             b = [AddPortMappingRequest |->
                    [sl.call.msg EXCEPT
                       !.XMLNS = s.ServiceType,
                       !.NewInternalClient = IF @ = "" THEN sl.client.LocalIP ELSE @]]
        /\ sl.call.action = "DeletePortMapping" =>
             b = [DeletePortMappingRequest |-> [sl.call.msg EXCEPT !.XMLNS = s.ServiceType]]
        /\ sl.call.action = "GetExternalIPAddress" =>
             b = [GetExternalIPAddressRequest |-> [XMLNS |-> s.ServiceType]]

\* The result of the call in slot sl is made of the answer to its own request.
OwnResult(sl) ==
    /\ (sl.call.err = NoErr) <=> Answered200(sl.call)
    /\ ~Answered200(sl.call) => sl.call.resp = ZeroResponseOf(sl.call.action)
    /\ (sl.call.action = "GetExternalIPAddress" /\ Answered200(sl.call)) =>
         sl.call.resp.NewExternalIPAddress =
            IF sl.call.answer.body.elems = <<>> THEN ""
            ELSE sl.call.answer.body.elems[1].children[1].text

PrefixOf(a, b) == Len(a) <= Len(b) /\ a = SubSeq(b, 1, Len(a))

\* The candidates of the replies before reply k, in reply order.
CandidatesBefore(k) == Flatten([i \in 1..(k - 1) |-> ReplyCandidates(headers[i])])

\* The probes issued for the reply the loop has fetched last.
ProbesOfLast ==
    SubSeq(probeLog, Len(CandidatesBefore(Len(ddLog))) + 1, Len(probeLog))

\* C18: the SCPD probes issued within one tree are, at every moment, the first
\* services of the tree in depth-first pre-order: the services of a device in
\* list order before those of its child devices, the child devices in list
\* order, the whole subtree of one before the next.
C18_ProbesInPreorder ==
    IF ddLog = <<>> THEN probeLog = <<>>
    ELSE /\ PrefixOf(CandidatesBefore(Len(ddLog)), probeLog)
         /\ PrefixOf(ProbesOfLast, ReplyCandidates(headers[Len(ddLog)]))

C18_Witness ==
    /\ pc = "resolved"
    /\ resErr # NoErr
    /\ DdFetch(ddLog[1]).body.root.Device =
         [ServiceList |-> <<SvcA>>,
          DeviceList |-> <<[ServiceList |-> <<SvcB>>, DeviceList |-> <<>>],
                           [ServiceList |-> <<SvcA>>, DeviceList |-> <<>>]>>]
    /\ [k \in 1..Len(probeLog) |-> probeLog[k].SCPDURL] =
         <<SvcA.SCPDURL, SvcB.SCPDURL, SvcA.SCPDURL>>

(***************************************************************************)
(* The order of the replies.                                               *)
(***************************************************************************)
\* No base location can be derived for the reply: its description names none
\* and its LOCATION holds no scheme and host.
InvalidLocation(h) ==
    LET resp == DdFetch(HeaderGet(h, "location"))
        root == Decoded(resp.body)
    IN  root.BaseUrl = EmptyStr /\ ~SchemeHostPort(HeaderGet(h, "location")).ok

FetchFailed(h) ==
    LET resp == DdFetch(HeaderGet(h, "location"))
    IN  ~resp.transport \/ resp.status # 200

\* Reply h cannot yield a service: its description is not served, its location
\* is invalid, or no service of its tree is accepted.
ReplyFailed(h) ==
    \/ FetchFailed(h)
    \/ InvalidLocation(h)
    \/ \A j \in 1..Len(ReplyCandidates(h)) : ~Accepted(ReplyCandidates(h)[j])

\* The error recorded for a failed reply is the error of its failure.
ReplyErrorMatches(h, e) ==
    LET resp == DdFetch(HeaderGet(h, "location"))
    IN  IF ~resp.transport THEN e.kind = "http.Get"
        ELSE IF resp.status # 200 THEN e.kind = "status" /\ e.status = resp.status
        ELSE IF InvalidLocation(h) THEN e.kind = "invalid location"
        ELSE e.kind = "join"

RECURSIVE Leaves(_)
Leaves(e) ==
    IF e.kind = "join" THEN Flatten([i \in 1..Len(e.errs) |-> Leaves(e.errs[i])])
    ELSE <<e>>

\* The errors of SCPD probes among them: those that name the URL probed.
ProbeErrors(e) == SelectSeq(Leaves(e), LAMBDA x : "url" \in DOMAIN x)

\* Why the probe of s is rejected.
RejectionOf(s) ==
    LET resp == ScpdFetch(Interior(s.Location) \o <<"/">> \o Interior(s.SCPDURL))
    IN  IF ~resp.transport THEN "http.Get"
        ELSE IF resp.status # 200 THEN "status"
        ELSE IF ~resp.body.parses THEN "xml.Unmarshal"
        ELSE "service is not valid"

\* C20: resolution returns an error only when every service of every tree has
\* been probed and rejected, whatever the reason of each rejection, and the
\* error then holds one error per probe, in the order of the probes, naming the
\* URL probed and the reason.
C20_RejectionsDoNotAbort ==
    (pc = "resolved" /\ resErr # NoErr) =>
        /\ probeLog = AllCandidates
        /\ \A k \in 1..Len(probeLog) : ~Accepted(probeLog[k])
        /\ Len(ProbeErrors(resErr)) = Len(probeLog)
        /\ \A k \in 1..Len(probeLog) :
             /\ ProbeErrors(resErr)[k].url =
                    Interior(probeLog[k].Location) \o <<"/">> \o Interior(probeLog[k].SCPDURL)
             /\ ProbeErrors(resErr)[k].kind = RejectionOf(probeLog[k])

C20_Witness ==
    /\ pc = "resolved"
    /\ resErr # NoErr
    /\ Len(headers) = 2
    /\ Len(probeLog) = 3
    /\ probeLog = AllCandidates
    /\ RejectionOf(probeLog[1]) = "http.Get"
    /\ RejectionOf(probeLog[2]) = "xml.Unmarshal"
    /\ RejectionOf(probeLog[3]) = "http.Get"
    /\ Len(ProbeErrors(resErr)) = 3

(***************************************************************************)
(* The verdict of isValidService.                                          *)
(***************************************************************************)
\* C21: isValidService returns nil exactly when the GET of the SCPD URL is
\* answered with status 200 and a body that parses and lists at least one of
\* AddPortMapping, DeletePortMapping and GetExternalIPAddress; otherwise it
\* returns an error.  The serviceType of the service plays no part.
C21_AcceptedIffProbeSucceeds ==
    pc = "probed" => ((probe.err = NoErr) <=> Accepted(probe.s))

C21_Witness ==
    /\ pc = "probed"
    /\ probe.s.ServiceType = <<"urn:vendor:x">>
    /\ ScpdFetch(Interior(probe.s.Location) \o <<"/">> \o Interior(probe.s.SCPDURL))
         = Response(200, [parses |-> TRUE,
                          actions |-> <<"GetStatusInfo", "DeletePortMapping">>])
    /\ probe.err = NoErr

(***************************************************************************)
(* The base location of a reply.                                           *)
(***************************************************************************)
\* The base location of reply h: the URLBase of its document when that is not
\* empty, otherwise scheme, host and port of its LOCATION.
BaseLocation(h) ==
    LET loc     == HeaderGet(h, "location")
        urlBase == Decoded(DdFetch(loc).body).BaseUrl
        shp     == SchemeHostPort(loc)
    IN  IF urlBase # EmptyStr THEN [ok |-> TRUE, url |-> urlBase]
        ELSE [ok |-> shp.ok, url |-> shp.base]

\* The probes issued while reply hi was examined.
NewProbes == SubSeq(probeLog', Len(probeLog) + 1, Len(probeLog'))

\* The URLs named by the probe errors of e, in order.
ProbeUrls(e) == [i \in 1..Len(ProbeErrors(e)) |-> ProbeErrors(e)[i].url]

C23_CollectUntilFirstFailure ==
    [][/\ sent' <= 1
       /\ udp'.reads > 0 => sent' = 1
       /\ udp'.deadlines \in {udp'.reads, udp'.reads + 1}
       /\ (pc = "udp_read" /\ pc' = "udp_read") =>
             /\ inbox # <<>>
             /\ res' = Append(res, Head(inbox))
             /\ inbox' = Tail(inbox)
             /\ udp'.deadlines = udp.deadlines + 1
             /\ udp'.reads = udp.reads + 1
       /\ (pc = "udp_read" /\ pc' # "udp_read") =>
             /\ udp.reads = Len(res)
             /\ res' = res
             /\ udp'.deadlines = udp.deadlines + 1
             /\ pc' = IF res = <<>> THEN "discovered" ELSE "parse"
       /\ pc # "udp_read" => (udp'.reads = udp.reads /\ sent' >= sent)
       /\ pc = "parse" => res' = res]_vars

\* The loop ended at a read that timed out, after as many datagrams as the
\* network delivered, the first two of them different.
C23_Witness ==
    /\ pc = "parse"
    /\ sent = 1
    /\ Len(res) = MaxDatagrams
    /\ res[1] = dgB /\ res[2] = dgA
    /\ udp.reads = MaxDatagrams + 1
    /\ udp.deadlines = MaxDatagrams + 1

(***************************************************************************)
(* How long udpRequest blocks.                                             *)
(***************************************************************************)
\* C24: when udpRequest has returned, the time it spent in its read loop is no
\* longer than the collection window, the 5 seconds of the read deadline,
\* whatever the gaps between the datagrams that arrived.
C24_ReturnsWithinWindow ==
    pc \in {"parse", "discovered"} => udp.elapsed <= ReadDeadline

(***************************************************************************)
(* Failures of udpRequest before its read loop.                            *)
(***************************************************************************)
SetupErrors == {"ListenUDP", "ParseAddr", "WriteToUDP"}

\* C25: once binding the socket, parsing the address or writing the probe has
\* failed, discover has returned that error: no deadline was set, no read was
\* made, no datagram was collected and no reply was parsed; and discover
\* returns without having entered the read loop only on such a failure.
C25_SetupFailureReadsNothing ==
    /\ discErr.kind \in SetupErrors =>
          /\ pc = "discovered"
          /\ udp.deadlines = 0 /\ udp.reads = 0
          /\ res = <<>> /\ headers = <<>>
    /\ (pc = "discovered" /\ udp.deadlines = 0) => discErr.kind \in SetupErrors

\* The probe could not be written while datagrams were on their way.
C25_Witness ==
    /\ pc = "discovered"
    /\ discErr = Err("WriteToUDP")
    /\ sock = "closed"
    /\ sent = 0
    /\ res = <<>> /\ headers = <<>>

(***************************************************************************)
(* Which datagrams discover drops.                                         *)
(***************************************************************************)
Whitespace == {" ", "\t", "\r", "\n"}

\* The whitespace-separated tokens of a status line (in the datagrams of the
\* model, every atom that is not whitespace stands between whitespace).
Tokens(line) == SelectSeq(line, LAMBDA a : a \notin Whitespace)

\* The four reasons for dropping a datagram: no line feed after the status
\* line, fewer than 3 whitespace-separated tokens in it, a status code other
\* than 200, headers that do not parse.
Malformed(dg) ==
    LET cut == Cut(dg, "\n")
    IN  \/ ~cut.found
        \/ Len(Tokens(cut.before)) < 3
        \/ Tokens(cut.before)[2] # "200"
        \/ ReadMIMEHeader(cut.after).err # NoErr

WellFormed(dg) == ~Malformed(dg)

\* C26: the replies discover returns are the headers of exactly the received
\* datagrams that none of the four reasons drops, in order; and when none is
\* left, the error joins one error per received datagram.
C26_DroppedExactlyWhenMalformed ==
    (pc = "discovered" /\ res # <<>>) =>
        LET kept == SelectSeq(res, WellFormed)
        IN  /\ headers = [i \in 1..Len(kept) |->
                            ReadMIMEHeader(Cut(kept[i], "\n").after).hdr]
            /\ headers = <<>> => Len(Leaves(discErr)) = Len(res)

(***************************************************************************)
(* LOCATION in the replies of discover.                                    *)
(***************************************************************************)
\* C27: every reply discover returns has a LOCATION header.
C27_RepliesHaveLocation ==
    pc = "discovered" =>
        \A i \in 1..Len(headers) : HeaderGet(headers[i], "LOCATION") # EmptyStr

(***************************************************************************)
(* The answers to the GET of LOCATION.                                     *)
(***************************************************************************)
\* C28: when the GET of LOCATION is answered with a status other than 200, the
\* reply adds one error carrying that status and the body, no SCPD probe is
\* issued for it and the next reply is examined; when it is answered with 200
\* and a body that does not parse, no error of the document is recorded and the
\* services decoded before the failure are probed in traversal order.
C28_StatusIsAnErrorParseIsNot ==
    [][(pc = "resolve" /\ hi <= Len(headers)) =>
        LET loc  == HeaderGet(headers[hi], "location")
            resp == DdFetch(loc)
            pre  == Preorder(Decoded(resp.body).Device)
        IN  /\ (resp.transport /\ resp.status # 200) =>
                  /\ errs' = Append(errs, [kind |-> "status", status |-> resp.status,
                                            body |-> resp.body])
                  /\ NewProbes = <<>>
                  /\ hi' = hi + 1
                  /\ pc' = "resolve"
            /\ (resp.transport /\ resp.status = 200 /\ ~resp.body.parses) =>
                  /\ Len(NewProbes) <= Len(pre)
                  /\ pre # <<>> => NewProbes # <<>>
                  /\ \A i \in 1..Len(NewProbes) :
                        NewProbes[i] = [pre[i] EXCEPT !.Location = SchemeHostPort(loc).base]
                  /\ pc' = "resolve" =>
                        /\ Len(errs') = Len(errs) + 1
                        /\ Len(ProbeErrors(Last(errs'))) = Len(NewProbes)
                        /\ Len(Leaves(Last(errs'))) = Len(NewProbes)]_vars

\* The first reply was answered 404 with a body and skipped; the second was
\* answered 200 with a document cut short, and the service decoded from it was
\* probed and returned.
C28_Witness ==
    /\ pc = "resolved"
    /\ Len(headers) = 2
    /\ DdFetch(HeaderGet(headers[1], "location")) = Response(404, PartialBody)
    /\ DdFetch(HeaderGet(headers[2], "location")) = Response(200, PartialBody)
    /\ errs = <<[kind |-> "status", status |-> 404, body |-> PartialBody]>>
    /\ Len(probeLog) = 1
    /\ svc = [SvcA EXCEPT !.Location = probeLog[1].Location]
    /\ resErr = NoErr

(***************************************************************************)
(* A body that does not decode, during resolution and during a call.       *)
(***************************************************************************)
\* The SCPD of s is served with status 200 and a body that does not parse.
UndecodableScpd(s) ==
    LET resp == ScpdFetch(Interior(s.Location) \o <<"/">> \o Interior(s.SCPDURL))
    IN  resp.transport /\ resp.status = 200 /\ ~resp.body.parses

\* C29: a candidate whose SCPD body does not decode is rejected, it is not the
\* service returned nor the one the Client is bound to, and the candidate after
\* it is probed; an action call answered 200 with a body that does not decode
\* returns a non-nil error and the zero response of its action.
C29_DecodeFailureByPhase ==
    /\ pc = "returned" =>
          \A j \in 1..Len(probeLog) :
             UndecodableScpd(probeLog[j]) =>
                /\ svc # probeLog[j]
                /\ client # NilClient => client.service # probeLog[j]
                /\ j < Len(AllCandidates) =>
                      (j < Len(probeLog) /\ probeLog[j + 1] = AllCandidates[j + 1])
    /\ (call.action # "none" /\ call.answer.transport /\ call.answer.status = 200
           /\ ~call.answer.body.parses) =>
          /\ call.err # NoErr
          /\ call.resp = ZeroResponseOf(call.action)

\* The first candidate had an SCPD that does not decode, the second was bound,
\* and a call on it was answered 200 with a body that is no envelope.
C29_Witness ==
    /\ HasClient
    /\ Len(probeLog) = 2
    /\ UndecodableScpd(probeLog[1])
    /\ client.service = probeLog[2]
    /\ call.action = "GetExternalIPAddress"
    /\ call.answer.transport /\ call.answer.status = 200 /\ ~call.answer.body.parses
    /\ call.err = Err("xml.Unmarshal")
    /\ call.resp = ZeroResponseOf("GetExternalIPAddress")

(***************************************************************************)
(* The request of an action call.                                          *)
(***************************************************************************)
\* The request element of an action in the body of the envelope.
RequestElementOf(action) ==
    CASE action = "AddPortMapping" -> "AddPortMappingRequest"
      [] action = "DeletePortMapping" -> "DeletePortMappingRequest"
      [] action = "GetExternalIPAddress" -> "GetExternalIPAddressRequest"

\* C30: the request of every action call is a POST to the base location of the
\* bound service joined to its controlURL, with the SOAPAction header
\* "<serviceType>#<action>" in quotes, the content type text/xml, and a body
\* holding one element, the request of the action called, whose namespace is
\* the serviceType of the bound service whatever the caller had put there.
C30_RequestOfACall ==
    call.action # "none" =>
        LET s == client.service
            e == RequestElementOf(call.action)
        IN  /\ call.req.method = "POST"
            /\ call.req.url = Interior(s.Location) \o <<"/">> \o Interior(s.ControlURL)
            /\ call.req.SOAPAction = <<"\"">> \o s.ServiceType \o <<"#">>
                                        \o <<call.action>> \o <<"\"">>
            /\ call.req.ContentType = "text/xml; charset=utf-8"
            /\ DOMAIN call.req.body = {e}
            /\ call.req.body[e].XMLNS = s.ServiceType

\* AddPortMapping was called with a namespace of the caller's own on a service
\* whose base location ends, and whose controlURL begins, with a slash.
C30_Witness ==
    /\ call.action = "AddPortMapping"
    /\ call.msg.XMLNS = <<"urn:caller">>
    /\ client.service.ServiceType = SvcA.ServiceType
    /\ client.service.Location = ExplicitBase
    /\ client.service.ControlURL = SvcA.ControlURL
    /\ call.req.url = <<"http:", "/", "/", "hA", "/", "ctl", "/", "1">>
    /\ call.req.body.AddPortMappingRequest.XMLNS = SvcA.ServiceType

(***************************************************************************)
(* Sockets and response bodies are released on return.                     *)
(***************************************************************************)
\* C31: whatever operations have run and on whatever exit paths, every socket
\* and every response body they opened has been closed when they have returned.
C31_ReleasedOnReturn == rsrc.open = 0

\* GetLocalIPAddr is the operation that ran last.
LastIsLocalIP == rsrc.ops # <<>> /\ Last(rsrc.ops).op = "GetLocalIPAddr"

\* C32: GetLocalIPAddr sends nothing and receives nothing; when it has a socket
\* it sets the deadline that is already past before it reads the local address,
\* it does both while the socket is open, and the socket is closed on return.
C32_NoPacketExchanged ==
    LastIsLocalIP =>
        LET ev   == rsrc.events
            At(e) == {i \in 1..Len(ev) : ev[i] = e}
        IN  /\ At("send") = {} /\ At("recv") = {}
            /\ StillOpen(ev) = 0
            /\ Last(rsrc.ops).exit = "ok" =>
                  /\ Cardinality(At("open socket")) = 1
                  /\ Cardinality(At("local addr")) = 1
                  /\ \A o \in At("open socket"), d \in At("past deadline"),
                        a \in At("local addr"), c \in At("close socket") :
                        o < d /\ d < a /\ a < c
                  /\ At("past deadline") # {} /\ At("close socket") # {}

\* GetLocalIPAddr ran after another operation and returned an address.
C32_Witness ==
    /\ Len(rsrc.ops) = 2
    /\ Last(rsrc.ops) = [op |-> "GetLocalIPAddr", exit |-> "ok"]
    /\ Len(rsrc.events) = 4

(***************************************************************************)
(* Resolution ends, and how many GETs it issues.                           *)
(***************************************************************************)
\* The service occurrences in the trees of the replies, reply by reply.
TotalServices ==
    Len(Flatten([i \in 1..Len(headers) |->
                   Preorder(Decoded(DdFetch(HeaderGet(headers[i], "location")).body).Device)]))

\* What is left of the loop of upnpService: the replies not yet examined, and
\* the return.
Variant == IF pc = "resolved" THEN 0 ELSE Len(headers) + 2 - hi

\* C33: every step of resolution brings its end nearer, by one reply or by the
\* return, so that it ends after at most one step per reply and one more; and
\* at no point has it issued more SCPD GETs than there are service occurrences
\* in the trees of the replies, or more device-description GETs than there are
\* replies (the replies and their trees stay as they are throughout).
C33_ResolutionTerminates ==
    [][/\ Variant' < Variant
       /\ Variant' >= 0
       /\ headers' = headers /\ ddOracle' = ddOracle
       /\ Len(probeLog') <= TotalServices
       /\ Len(ddLog') <= Len(headers)]_vars

\* The same LOCATION was announced twice: its description was fetched twice and
\* each of its three services was probed, and rejected, once per reply.
C33_Witness ==
    /\ pc = "resolved"
    /\ resErr # NoErr
    /\ Len(headers) = 2
    /\ headers[1] = headers[2]
    /\ ddLog = <<LocA, LocA>>
    /\ TotalServices = 6
    /\ Len(probeLog) = 6

====
